---- MODULE Spec2Model ----
(***************************************************************************)
(* Build orchestration pipeline of the Product Builder:                    *)
(*   planner -> validator -> compatibility check -> geometry worker(s)     *)
(*   -> optional layout worker -> optional component-model worker.         *)
(*                                                                         *)
(* Lengths are kept in hundredths of the document's unit, so that the      *)
(* decimal limits of the source (1.5 mm, 0.06 in, 0.04 in) are integers:   *)
(* 1.5 is written 150, 0.06 is written 6.                                  *)
(***************************************************************************)
EXTENDS Integers, Sequences, FiniteSets, TLC

(***************************************************************************)
(* Bounds of the model.                                                    *)
(***************************************************************************)
\* longest parts array of an assembly
MaxParts == 2
\* most lines a worker writes to its diagnostic stream
MaxStderrLines == 2
\* most chunks a worker writes to its output stream
MaxStdoutChunks == 1
\* most lines of an analysis report
MaxAnalysisLines == 3
\* chunks a pipe between the server and a worker holds before a write blocks
PipeCap == 1
\* chunks the serialized job is written in
JobChunks == 2
\* most chunks a worker writes to each of its two streams
MaxWorkerWrites == 2

(***************************************************************************)
(* JavaScript values.                                                      *)
(***************************************************************************)
\* a numeric property that is undefined
Absent == -1

\* !v for a number-or-undefined property: undefined and 0 are falsy
FalsyNum(v) == v = Absent \/ v = 0

\* !s for a string-or-undefined property: undefined is written ""
FalsyStr(s) == s = ""

\* a || b for number-or-undefined operands
OrNum(a, b) == IF FalsyNum(a) THEN b ELSE a

\* a || b for string-or-undefined operands
OrStr(a, b) == IF FalsyStr(a) THEN b ELSE a

(***************************************************************************)
(* VALIDATION_RULES (templateTraining.js), in hundredths.                  *)
(***************************************************************************)
UnitsAllowed == {"mm", "inches"}
WallMinMm == 150
WallMinInches == 6
DimMinMm == 100
DimMinInches == 4
DimMaxMm == 200000
DimMaxInches == 8000

(***************************************************************************)
(* MANUFACTURING_CONSTRAINTS (aiPlanner.js), in hundredths.                *)
(***************************************************************************)
MANUFACTURING_CONSTRAINTS(units) ==
    IF units = "inches"
    THEN [min_wall_thickness |-> 6, recommended_wall_thickness |-> 10]
    ELSE [min_wall_thickness |-> 150, recommended_wall_thickness |-> 250]

(***************************************************************************)
(* Design documents.                                                       *)
(***************************************************************************)
NoPcbDetails == [present |-> FALSE, width |-> Absent, height |-> Absent,
                 layers |-> Absent, components |-> 0]

NoAssembly == [present |-> FALSE, is_assembly |-> FALSE,
               has_parts |-> FALSE, parts |-> <<>>]

\* the empty object {}: every property undefined
EmptyDoc ==
    [product_type |-> "", units |-> "", shape_type |-> "", material |-> "",
     length |-> Absent, width |-> Absent, height |-> Absent,
     diameter |-> Absent, size |-> Absent,
     diameter_base |-> Absent, base_diameter |-> Absent,
     teeth |-> Absent, module |-> Absent,
     base_length |-> Absent, base_width |-> Absent,
     hook_depth |-> Absent, hinge_length |-> Absent,
     wall_thickness |-> Absent,
     pcb_required |-> FALSE, pcb_details |-> NoPcbDetails,
     is_assembly |-> FALSE, has_parts |-> FALSE, parts |-> <<>>,
     assembly |-> NoAssembly,
     use_design_language |-> FALSE, cutouts |-> 0]

\* a part as the validator reads it (designData.parts[idx])
EmptyPart ==
    [name |-> "", shape_type |-> "", length |-> Absent, width |-> Absent,
     height |-> Absent, diameter |-> Absent, size |-> Absent,
     wall_thickness |-> Absent]

(***************************************************************************)
(* aiPlanner.autoCorrectDesign                                             *)
(***************************************************************************)
\* the mutant of autoCorrectDesign: an undersized wall is doubled, not set to
\* the recommended value
autoCorrectDesign_Doubling(design) ==
    LET units == OrStr(design.units, "mm")
        constraints == MANUFACTURING_CONSTRAINTS(units)
        wall == IF ~FalsyNum(design.wall_thickness)
                   /\ design.wall_thickness < constraints.min_wall_thickness
                THEN 2 * design.wall_thickness
                ELSE IF FalsyNum(design.wall_thickness)
                     THEN constraints.recommended_wall_thickness
                     ELSE design.wall_thickness
    IN  [design EXCEPT !.units = units,
                       !.product_type = OrStr(design.product_type, "custom part"),
                       !.shape_type = OrStr(design.shape_type, "box"),
                       !.material = OrStr(design.material, "PLA"),
                       !.wall_thickness = wall]

autoCorrectDesign(design) ==
    LET units == OrStr(design.units, "mm")
        constraints == MANUFACTURING_CONSTRAINTS(units)
        wall == IF ~FalsyNum(design.wall_thickness)
                   /\ design.wall_thickness < constraints.min_wall_thickness
                THEN constraints.recommended_wall_thickness
                ELSE IF FalsyNum(design.wall_thickness)
                     THEN constraints.recommended_wall_thickness
                     ELSE design.wall_thickness
    IN  [design EXCEPT !.units = units,
                       !.product_type = OrStr(design.product_type, "custom part"),
                       !.shape_type = OrStr(design.shape_type, "box"),
                       !.material = OrStr(design.material, "PLA"),
                       !.wall_thickness = wall]

(***************************************************************************)
(* templateTraining.validateDesignData                                     *)
(*                                                                         *)
(* An error entry is {field, message}; the message is kept as its text     *)
(* template and the field name the template interpolates or mentions.      *)
(***************************************************************************)
ErrEntry(field, text, subject) ==
    [field |-> field, message |-> [text |-> text, subject |-> subject]]

cylindricalShapes == {"cylinder", "shaft", "bottle", "cup", "pen_holder", "planter", "coaster"}
sphericalShapes == {"sphere", "dome", "bowl"}
conicalShapes == {"cone", "vase", "funnel"}
gearShapes == {"gear", "spur_gear", "helical_gear", "bevel_gear"}
customShapes == {"phone_stand", "cable_clip", "cable_holder", "cable_spiral", "cable_channel",
                 "living_hinge", "pin_hinge", "snap_hinge", "piano_hinge", "hook"}

\* errors pushed by the loop over baseRequiredFields
BaseFieldErrors(d) ==
    (IF FalsyStr(d.product_type)
     THEN <<ErrEntry("product_type", "Missing required field", "product_type")>>
     ELSE <<>>)
    \o (IF FalsyStr(d.units)
        THEN <<ErrEntry("units", "Missing required field", "units")>>
        ELSE <<>>)

\* `parts[${idx}]` with an optional property suffix
PartField(idx, suffix) == "parts[" \o ToString(idx) \o "]" \o suffix

\* errors pushed for parts[idx] (idx is 0-based as in the source)
PartErrors(part, idx) ==
    (IF FalsyStr(part.name)
     THEN <<ErrEntry(PartField(idx, ".name"), "Part missing name", PartField(idx, ".name"))>>
     ELSE <<>>)
    \o (IF FalsyStr(part.shape_type)
        THEN <<ErrEntry(PartField(idx, ".shape_type"), "Part missing shape_type",
                        PartField(idx, ".shape_type"))>>
        ELSE <<>>)
    \o (IF FalsyNum(part.length) /\ FalsyNum(part.width) /\ FalsyNum(part.height)
           /\ FalsyNum(part.diameter) /\ FalsyNum(part.size)
        THEN <<ErrEntry(PartField(idx, ""), "Part missing dimensions", PartField(idx, ""))>>
        ELSE <<>>)

RECURSIVE AllPartErrors(_, _)
\* designData.parts.forEach, from 1-based position k on
AllPartErrors(parts, k) ==
    IF k > Len(parts) THEN <<>>
    ELSE PartErrors(parts[k], k - 1) \o AllPartErrors(parts, k + 1)

\* errors pushed by the single-part branch
SinglePartErrors(d) ==
    LET shapeType == OrStr(d.shape_type, "box") IN
    IF shapeType \in cylindricalShapes THEN
        (IF FalsyNum(d.diameter) /\ FalsyNum(d.width)
         THEN <<ErrEntry("diameter", "Cylindrical shapes require diameter", "diameter")>>
         ELSE <<>>)
        \o (IF FalsyNum(d.length) /\ FalsyNum(d.height)
            THEN <<ErrEntry("length", "Cylindrical shapes require length or height", "length")>>
            ELSE <<>>)
    ELSE IF shapeType \in sphericalShapes THEN
        (IF FalsyNum(d.diameter) /\ FalsyNum(d.width)
         THEN <<ErrEntry("diameter", "Spherical shapes require diameter", "diameter")>>
         ELSE <<>>)
    ELSE IF shapeType \in conicalShapes THEN
        (IF FalsyNum(d.diameter_base) /\ FalsyNum(d.base_diameter) /\ FalsyNum(d.diameter)
         THEN <<ErrEntry("diameter", "Conical shapes require diameter", "diameter")>>
         ELSE <<>>)
        \o (IF FalsyNum(d.height) /\ FalsyNum(d.length)
            THEN <<ErrEntry("height", "Conical shapes require height", "height")>>
            ELSE <<>>)
    ELSE IF shapeType \in gearShapes THEN
        (IF FalsyNum(d.teeth)
         THEN <<ErrEntry("teeth", "Gears require teeth count", "teeth")>>
         ELSE <<>>)
        \o (IF FalsyNum(d.module) /\ FalsyNum(d.diameter)
            THEN <<ErrEntry("module", "Gears require module or diameter", "module")>>
            ELSE <<>>)
    ELSE IF shapeType \in customShapes THEN
        (IF FalsyNum(d.length) /\ FalsyNum(d.width) /\ FalsyNum(d.height)
            /\ FalsyNum(d.diameter) /\ FalsyNum(d.base_length) /\ FalsyNum(d.base_width)
            /\ FalsyNum(d.hook_depth) /\ FalsyNum(d.hinge_length)
         THEN <<ErrEntry("dimensions", "Shape type requires dimensions", "dimensions")>>
         ELSE <<>>)
    ELSE IF shapeType = "box" THEN
        \* !designData[field] && designData[field] !== 0: only undefined is missing
        (IF d.length = Absent
         THEN <<ErrEntry("length", "Missing required dimension", "length")>> ELSE <<>>)
        \o (IF d.width = Absent
            THEN <<ErrEntry("width", "Missing required dimension", "width")>> ELSE <<>>)
        \o (IF d.height = Absent
            THEN <<ErrEntry("height", "Missing required dimension", "height")>> ELSE <<>>)
    ELSE IF FalsyNum(d.length) /\ FalsyNum(d.width) /\ FalsyNum(d.height)
            /\ FalsyNum(d.diameter) /\ FalsyNum(d.size)
         THEN <<ErrEntry("dimensions", "Shape type requires at least one dimension", "dimensions")>>
         ELSE <<>>

\* the errors array when the required-field phase ends
RequiredFieldErrors(d) ==
    BaseFieldErrors(d)
    \o (IF d.is_assembly /\ d.has_parts
        THEN AllPartErrors(d.parts, 1)
        ELSE SinglePartErrors(d))

\* One segment of an error message: literal text, an interpolated line of a
\* worker's diagnostic stream, or an interpolated validation entry.
Text(t) == [kind |-> "text", text |-> t, subject |-> ""]
StderrSeg(line) == [kind |-> "stderr", text |-> line, subject |-> ""]
ItemSeg(m) == [kind |-> "item", text |-> m.text, subject |-> m.subject]

\* new Error(message)
Error(message) == [name |-> "Error", message |-> message, field |-> ""]

\* new ValidationError(message, field)
ValidationError(message, field) ==
    [name |-> "ValidationError", message |-> message, field |-> field]

DimMin(d) == IF d.units = "mm" THEN DimMinMm ELSE DimMinInches
DimMax(d) == IF d.units = "mm" THEN DimMaxMm ELSE DimMaxInches
WallMin(d) == IF d.units = "mm" THEN WallMinMm ELSE WallMinInches

\* value !== undefined && value !== null && (value < min || value > max)
DimOutOfRange(d, dim) ==
    d[dim] # Absent /\ (d[dim] < DimMin(d) \/ d[dim] > DimMax(d))

dims == <<"length", "width", "height", "diameter", "size">>

\* the first dimension, in the order of dims, that the range loop throws on
FirstBadDim(d) ==
    LET bad == {i \in 1..Len(dims) : DimOutOfRange(d, dims[i])}
    IN  IF bad = {} THEN 0 ELSE CHOOSE i \in bad : \A j \in bad : i <= j

\* the PCB block check: 0 = passes, else which throw
PcbThrow(d) ==
    IF d.pcb_required /\ d.pcb_details.present
    THEN IF FalsyNum(d.pcb_details.width) \/ FalsyNum(d.pcb_details.height) THEN 1
         ELSE IF ~FalsyNum(d.pcb_details.layers) /\ d.pcb_details.layers \notin {1, 2, 4} THEN 2
         ELSE 0
    ELSE 0

RECURSIVE Messages(_)
\* errors.map(e => e.message).join(', ')
Messages(errors) ==
    IF errors = <<>> THEN <<>>
    ELSE <<ItemSeg(Head(errors).message)>> \o Messages(Tail(errors))

\* a thrown range/units/PCB error: its message is one interpolated entry
OneItem(text, subject) == <<ItemSeg([text |-> text, subject |-> subject])>>

\* validateDesignData: [ok |-> TRUE] when it returns true, else the error thrown
validateDesignData(d) ==
    LET errors == RequiredFieldErrors(d) IN
    IF Len(errors) > 0
    THEN [ok |-> FALSE,
          error |-> ValidationError(<<Text("Validation failed: ")>> \o Messages(errors),
                                    errors[1].field)]
    ELSE IF d.units \notin UnitsAllowed
    THEN [ok |-> FALSE,
          error |-> ValidationError(OneItem("Units must be either mm or inches", "units"),
                                    "units")]
    ELSE IF FirstBadDim(d) # 0
    THEN [ok |-> FALSE,
          error |-> ValidationError(OneItem("Dimensions out of reasonable range",
                                            dims[FirstBadDim(d)]),
                                    dims[FirstBadDim(d)])]
    ELSE IF ~FalsyNum(d.wall_thickness) /\ d.wall_thickness < WallMin(d)
    THEN [ok |-> FALSE,
          error |-> ValidationError(OneItem("Wall thickness too thin for manufacturing",
                                            "wall_thickness"),
                                    "wall_thickness")]
    ELSE IF PcbThrow(d) = 1
    THEN [ok |-> FALSE,
          error |-> ValidationError(OneItem("PCB dimensions (width, height) required",
                                            "pcb_details"),
                                    "pcb_details")]
    ELSE IF PcbThrow(d) = 2
    THEN [ok |-> FALSE,
          error |-> ValidationError(OneItem("PCB layers must be 1, 2, or 4",
                                            "pcb_details.layers"),
                                    "pcb_details.layers")]
    ELSE [ok |-> TRUE, error |-> Error(<<>>)]

(***************************************************************************)
(* Text.  A line of text is a string of a fixed alphabet; String.includes  *)
(* and String.trim are tabulated over that alphabet.                       *)
(***************************************************************************)
KiCadMissingLine == "KiCad Python API is not installed or not available"
FreeCADMissingLine == "FreeCAD is not installed or not available in Python path"
WarningLine == "Warning: wall thinner than recommended"
IndentedNoteLine == "  Note: supports advised  "
PlainLine == "Generating geometry"
\* the characters U+26A0 (warning sign) and U+2713 (check mark), transcribed
WarningSign == "(warning sign)"
CheckMark == "(check mark)"
SignLine == "(warning sign) steep overhang near the lid"
CheckedLine == "(check mark) Printable without supports"
LayerHeightLine == "Layer height: 0.2mm"
PrintTimeLine == "Print time: 1:30"
BeginMarkerLine == "=== RECOMMENDED PRINT SETTINGS ==="
EndMarkerLine == "=== END ANALYSIS ==="
ManifoldLine == "Geometry is manifold"
OverhangLine == "Steep overhangs detected"
NoOverhangLine == "No significant overhangs detected"
\* an answer of the planner's model that is prose, not JSON
ProseAnswer == "I cannot express this as JSON; please model it in FreeCAD directly"

\* text.includes(needle)
Includes(text, needle) ==
    CASE needle = "KiCad Python API is not installed" -> text = KiCadMissingLine
      [] needle = "FreeCAD" ->
            text \in {FreeCADMissingLine, ProseAnswer,
                      "Make sure FreeCAD is installed correctly. Visit https://www.freecad.org/downloads.php"}
      [] needle = "AI planning failed" -> text = "AI planning failed: "
      [] needle = "Validation failed" -> text = "Validation failed: "
      [] needle = "Warning:" ->
            text = WarningLine
      [] needle = "Note:" -> text = IndentedNoteLine
      [] needle = WarningSign -> text = SignLine
      [] needle = CheckMark -> text = CheckedLine
      [] needle = BeginMarkerLine -> text = BeginMarkerLine
      [] needle = EndMarkerLine -> text = EndMarkerLine
      [] needle = "Geometry is manifold" -> text = ManifoldLine
      [] needle = "overhangs detected" -> text \in {OverhangLine, NoOverhangLine}
      [] needle = "No significant" -> text = NoOverhangLine
      [] needle = "PCB generator" ->
            text \in {"PCB generator failed with code ", "Failed to parse PCB generator output: ",
                      "Failed to start PCB generator: "}
      [] OTHER -> FALSE

\* line.trim()
Trim(line) == IF line = IndentedNoteLine THEN "Note: supports advised" ELSE line

\* error.message.includes(needle)
MessageIncludes(message, needle) ==
    \E k \in 1..Len(message) : Includes(message[k].text, needle)

(***************************************************************************)
(* Worker discovery and the compatibility check (database.js).             *)
(***************************************************************************)
\* getFreeCADPython: env.freecad says whether one of possiblePaths exists
getFreeCADPython(env) ==
    IF env.platform # "win32" THEN "python3"
    ELSE IF env.freecad THEN "C:\\Program Files\\FreeCAD\\bin\\python.exe"
    ELSE "python"

\* getKiCADPython: env.kicad says whether one of possiblePaths exists
getKiCADPython(env) ==
    IF env.platform # "win32" THEN "python3"
    ELSE IF env.kicad THEN "C:\\Program Files\\KiCad\\bin\\python.exe"
    ELSE "python"

Max2(a, b) == IF a >= b THEN a ELSE b
Min2(a, b) == IF a <= b THEN a ELSE b

checkEngineCompatibility(designData, env) ==
    LET maxDim == Max2(OrNum(designData.length, 0),
                       Max2(OrNum(designData.width, 0), OrNum(designData.height, 0)))
        minDim == Min2(OrNum(designData.length, 0),
                       Min2(OrNum(designData.width, 0), OrNum(designData.height, 0)))
    IN  (IF getFreeCADPython(env) = "python"
         THEN <<"FreeCAD not found - using fallback Python (may have limited CAD features)">>
         ELSE <<>>)
        \o (IF designData.pcb_required /\ getKiCADPython(env) = "python"
            THEN <<"KiCad not found - PCB generation will be skipped">>
            ELSE <<>>)
        \o (IF designData.pcb_required
               /\ (~designData.pcb_details.present \/ designData.pcb_details.components = 0)
            THEN <<"PCB required but no components specified - will generate basic board layout">>
            ELSE <<>>)
        \o (IF designData.cutouts > 20
            THEN <<"High cutout count - CAD generation may be slow">>
            ELSE <<>>)
        \o (IF designData.units = "mm" /\ maxDim > 40000
            THEN <<"Large dimensions - may exceed standard 3D printer build volume">>
            ELSE <<>>)
        \o (IF designData.units = "mm" /\ minDim < 1000 /\ minDim > 0
            THEN <<"Very small dimensions - may be difficult to manufacture">>
            ELSE <<>>)

(***************************************************************************)
(* Worker output.  The output stream is a sequence of chunks; a chunk is   *)
(* either one serialized result document or text that is not JSON.         *)
(***************************************************************************)
\* a reference to a generated file: its name and, as a ghost, the number of
\* the worker invocation that wrote it
FileRef(jobId, ext, inv) == [name |-> jobId \o <<ext>>, inv |-> inv]

\* a result document with every property undefined
EmptyResultDoc ==
    [success |-> FALSE, has_files |-> FALSE, files |-> <<>>,
     triangle_count |-> Absent, file_size |-> Absent,
     component_count |-> Absent, layers |-> Absent,
     component_file |-> "", has_component_models |-> FALSE, component_models |-> <<>>,
     error |-> ""]

DocChunk(doc) == [json |-> TRUE, doc |-> doc]
GarbageChunk == [json |-> FALSE, doc |-> EmptyResultDoc]

\* JSON.parse(stdout) succeeds: the stream holds exactly one document
Parses(stdout) == Len(stdout) = 1 /\ stdout[1].json

\* a well-formed document of the worker protocol: { success, files, ... }
WellFormed(stdout) ==
    Parses(stdout) /\ stdout[1].doc.success /\ stdout[1].doc.has_files

\* the well-formed document of a worker kind: the component-model worker
\* answers { success, component_models }, the others { success, files, ... }
WellFormedFor(kind, stdout) ==
    IF kind = "component" THEN Parses(stdout) /\ stdout[1].doc.success
    ELSE WellFormed(stdout)

Null == [null |-> TRUE, v |-> <<>>]
Some(v) == [null |-> FALSE, v |-> v]

RECURSIVE StderrSegs(_)
\* `${stderr}` interpolated into a message
StderrSegs(stderr) ==
    IF stderr = <<>> THEN <<>>
    ELSE <<StderrSeg(Head(stderr))>> \o StderrSegs(Tail(stderr))

\* the diagnostic text an error message carries
RECURSIVE CarriedStderr(_)
CarriedStderr(message) ==
    IF message = <<>> THEN <<>>
    ELSE (IF Head(message).kind = "stderr" THEN <<Head(message).text>> ELSE <<>>)
         \o CarriedStderr(Tail(message))

(***************************************************************************)
(* Feedback extraction from the diagnostic text (database.js).             *)
(***************************************************************************)
\* line.split(':').map(s => s.trim()) for the lines of a settings block
SplitColon(line) ==
    CASE line = LayerHeightLine -> <<"Layer height", "0.2mm">>
      [] line = PrintTimeLine -> <<"Print time", "1", "30">>
      [] line = "Supports:" -> <<"Supports", "">>
      [] line = WarningLine -> <<"Warning", "wall thinner than recommended">>
      [] line = IndentedNoteLine -> <<"Note", "supports advised">>
      [] OTHER -> <<line>>

\* line.includes(':')
HasColon(line) == Len(SplitColon(line)) > 1

\* the mutant of CadLineStep: only the lines with the warning marker become
\* feedback entries
CadLineStep_WarningsOnly(acc, line) ==
    LET fb == IF Includes(line, "Warning:")
              THEN Append(acc.feedback, Trim(line)) ELSE acc.feedback
        parts == SplitColon(line)
        begins == Includes(line, BeginMarkerLine)
        ends == Includes(line, EndMarkerLine)
        inBlock == IF begins THEN TRUE
                   ELSE IF ends THEN FALSE
                   ELSE acc.inPrintSettings
        ps1 == IF ~begins /\ ~ends
                  /\ acc.inPrintSettings /\ HasColon(line)
                  /\ parts[1] # "" /\ parts[2] # ""
               THEN [k \in DOMAIN acc.printSettings \cup {parts[1]} |->
                        IF k = parts[1] THEN parts[2] ELSE acc.printSettings[k]]
               ELSE acc.printSettings
        ps2 == IF Includes(line, CheckMark) \/ Includes(line, "Geometry is manifold")
               THEN [k \in DOMAIN ps1 \cup {"isManifold"} |->
                        IF k = "isManifold" THEN "true" ELSE ps1[k]]
               ELSE ps1
        ps3 == IF Includes(line, "overhangs detected")
               THEN [k \in DOMAIN ps2 \cup {"needsSupports"} |->
                        IF k = "needsSupports"
                        THEN (IF Includes(line, "No significant") THEN "false" ELSE "true")
                        ELSE ps2[k]]
               ELSE ps2
    IN  [feedback |-> fb, printSettings |-> ps3, inPrintSettings |-> inBlock]

\* the body of lines.forEach in runCADGenerator, applied to one line
CadLineStep(acc, line) ==
    LET fb == IF Includes(line, "Warning:") \/ Includes(line, "Note:")
                 \/ Includes(line, WarningSign)
              THEN Append(acc.feedback, Trim(line)) ELSE acc.feedback
        parts == SplitColon(line)
        begins == Includes(line, BeginMarkerLine)
        ends == Includes(line, EndMarkerLine)
        inBlock == IF begins THEN TRUE
                   ELSE IF ends THEN FALSE
                   ELSE acc.inPrintSettings
        ps1 == IF ~begins /\ ~ends
                  /\ acc.inPrintSettings /\ HasColon(line)
                  /\ parts[1] # "" /\ parts[2] # ""
               THEN [k \in DOMAIN acc.printSettings \cup {parts[1]} |->
                        IF k = parts[1] THEN parts[2] ELSE acc.printSettings[k]]
               ELSE acc.printSettings
        ps2 == IF Includes(line, CheckMark) \/ Includes(line, "Geometry is manifold")
               THEN [k \in DOMAIN ps1 \cup {"isManifold"} |->
                        IF k = "isManifold" THEN "true" ELSE ps1[k]]
               ELSE ps1
        ps3 == IF Includes(line, "overhangs detected")
               THEN [k \in DOMAIN ps2 \cup {"needsSupports"} |->
                        IF k = "needsSupports"
                        THEN (IF Includes(line, "No significant") THEN "false" ELSE "true")
                        ELSE ps2[k]]
               ELSE ps2
    IN  [feedback |-> fb, printSettings |-> ps3, inPrintSettings |-> inBlock]

RECURSIVE CadExtract(_, _)
\* lines.forEach over the diagnostic text
CadExtract(acc, lines) ==
    IF lines = <<>> THEN acc
    ELSE CadExtract(CadLineStep(acc, Head(lines)), Tail(lines))

EmptySettings == [k \in {} |-> ""]

RECURSIVE PcbFeedback(_)
\* the feedback loop of runPCBGenerator
PcbFeedback(lines) ==
    IF lines = <<>> THEN <<>>
    ELSE (IF Includes(Head(lines), "Warning:") \/ Includes(Head(lines), "Note:")
          THEN <<Trim(Head(lines))>> ELSE <<>>)
         \o PcbFeedback(Tail(lines))

(***************************************************************************)
(* The 'close' handlers: the settlement of the invocation's promise.       *)
(***************************************************************************)
NoValue == [none |-> TRUE]
Rejected(err) == [status |-> "rejected", value |-> NoValue, error |-> err]
Resolved(val) == [status |-> "resolved", value |-> val, error |-> Error(<<>>)]
Pending == [status |-> "pending", value |-> NoValue, error |-> Error(<<>>)]

CodeText(code) == ToString(code)

\* the mutant of CadOnClose: the output is parsed before the exit code is
\* looked at, and the two metrics are taken from each other's property
CadOnClose_ParseFirst(code, stdout, stderr) ==
    IF Parses(stdout) /\ stdout[1].doc.has_files
    THEN LET result == stdout[1].doc
             ex == CadExtract([feedback |-> <<>>, printSettings |-> EmptySettings,
                               inPrintSettings |-> FALSE], stderr)
         IN  Resolved([files |-> result.files,
                       feedback |-> ex.feedback,
                       printSettings |-> ex.printSettings,
                       triangleCount |-> result.file_size,
                       fileSize |-> result.triangle_count])
    ELSE IF code # 0
    THEN Rejected(Error(<<Text("CAD generator failed with code "), Text(CodeText(code)),
                          Text(": ")>> \o StderrSegs(stderr)))
    ELSE Rejected(Error(<<Text("Failed to parse CAD generator output: "),
                          Text("Unexpected token in JSON")>>))

\* pythonProcess.on('close') of runCADGenerator
CadOnClose(code, stdout, stderr) ==
    IF code # 0
    THEN Rejected(Error(<<Text("CAD generator failed with code "), Text(CodeText(code)),
                          Text(": ")>> \o StderrSegs(stderr)))
    ELSE IF ~Parses(stdout)
    THEN Rejected(Error(<<Text("Failed to parse CAD generator output: "),
                          Text("Unexpected token in JSON")>>))
    ELSE IF ~stdout[1].doc.has_files
    THEN Rejected(Error(<<Text("Failed to parse CAD generator output: "),
                          Text("Cannot read properties of undefined (reading 'join')")>>))
    ELSE LET result == stdout[1].doc
             ex == CadExtract([feedback |-> <<>>, printSettings |-> EmptySettings,
                               inPrintSettings |-> FALSE], stderr)
         IN  Resolved([files |-> result.files,
                       feedback |-> ex.feedback,
                       printSettings |-> ex.printSettings,
                       triangleCount |-> result.triangle_count,
                       fileSize |-> result.file_size])

\* the mutant of InterpreterOnClose: the exit code is not looked at
InterpreterOnClose_IgnoreCode(code, stdout, stderr) ==
    IF ~Parses(stdout)
    THEN Rejected(Error(<<Text("Geometry Interpreter output parsing failed: "),
                          Text("Unexpected token in JSON")>>))
    ELSE IF ~stdout[1].doc.success
    THEN Rejected(Error(<<Text("Geometry Interpreter output parsing failed: "),
                          Text(OrStr(stdout[1].doc.error, "Unknown interpreter error"))>>))
    ELSE Resolved([files |-> stdout[1].doc.files, feedback |-> <<>>])

\* pythonProcess.on('close') of runGeometryInterpreter
InterpreterOnClose(code, stdout, stderr) ==
    IF code # 0
    THEN Rejected(Error(<<Text("Geometry Interpreter failed: ")>> \o StderrSegs(stderr)))
    ELSE IF ~Parses(stdout)
    THEN Rejected(Error(<<Text("Geometry Interpreter output parsing failed: "),
                          Text("Unexpected token in JSON")>>))
    ELSE IF ~stdout[1].doc.success
    THEN Rejected(Error(<<Text("Geometry Interpreter output parsing failed: "),
                          Text(OrStr(stdout[1].doc.error, "Unknown interpreter error"))>>))
    ELSE IF ~stdout[1].doc.has_files
    THEN Rejected(Error(<<Text("Geometry Interpreter output parsing failed: "),
                          Text("Cannot read properties of undefined (reading 'length')")>>))
    ELSE Resolved([files |-> stdout[1].doc.files, feedback |-> <<>>])

\* the mutant of PcbOnClose: output that does not parse is reported with the
\* message of a failed exit
PcbOnClose_OneMessage(code, stdout, stderr) ==
    IF code # 0 \/ ~Parses(stdout) \/ ~stdout[1].doc.has_files
    THEN Rejected(Error(<<Text("PCB generator failed with code "), Text(CodeText(code)),
                          Text(": ")>> \o StderrSegs(stderr)))
    ELSE LET result == stdout[1].doc
         IN  Resolved([files |-> result.files,
                       feedback |-> PcbFeedback(stderr),
                       componentCount |-> result.component_count,
                       layerCount |-> result.layers,
                       component_file |-> result.component_file])

\* pythonProcess.on('close') of runPCBGenerator
PcbOnClose(code, stdout, stderr) ==
    IF code # 0
    THEN Rejected(Error(<<Text("PCB generator failed with code "), Text(CodeText(code)),
                          Text(": ")>> \o StderrSegs(stderr)))
    ELSE IF ~Parses(stdout)
    THEN Rejected(Error(<<Text("Failed to parse PCB generator output: "),
                          Text("Unexpected token in JSON")>>))
    ELSE IF ~stdout[1].doc.has_files
    THEN Rejected(Error(<<Text("Failed to parse PCB generator output: "),
                          Text("Cannot read properties of undefined (reading 'join')")>>))
    ELSE LET result == stdout[1].doc
         IN  Resolved([files |-> result.files,
                       feedback |-> PcbFeedback(stderr),
                       componentCount |-> result.component_count,
                       layerCount |-> result.layers,
                       component_file |-> result.component_file])

\* the mutant of ComponentOnClose: a failed exit is reported without the
\* diagnostic text
ComponentOnClose_NoStderr(code, stdout, stderr) ==
    IF code # 0
    THEN Rejected(Error(<<Text("Component model generator exited with code "),
                          Text(CodeText(code))>>))
    ELSE IF ~Parses(stdout)
    THEN Rejected(Error(<<Text("Failed to parse component model generator output: "),
                          Text("Unexpected token in JSON")>>))
    ELSE IF stdout[1].doc.success
    THEN Resolved(stdout[1].doc)
    ELSE Rejected(Error(<<Text(OrStr(stdout[1].doc.error,
                                     "Component model generation failed"))>>))

\* pythonProcess.on('close') of runComponentModelGenerator
ComponentOnClose(code, stdout, stderr) ==
    IF code # 0
    THEN Rejected(Error(<<Text("Component model generator exited with code "),
                          Text(CodeText(code)), Text(": ")>> \o StderrSegs(stderr)))
    ELSE IF ~Parses(stdout)
    THEN Rejected(Error(<<Text("Failed to parse component model generator output: "),
                          Text("Unexpected token in JSON")>>))
    ELSE IF stdout[1].doc.success
    THEN Resolved(stdout[1].doc)
    ELSE Rejected(Error(<<Text(OrStr(stdout[1].doc.error,
                                     "Component model generation failed"))>>))

\* the 'close' handler of a worker kind
OnClose(kind, code, stdout, stderr) ==
    CASE kind = "cad" -> CadOnClose(code, stdout, stderr)
      [] kind = "interpreter" -> InterpreterOnClose(code, stdout, stderr)
      [] kind = "pcb" -> PcbOnClose(code, stdout, stderr)
      [] kind = "component" -> ComponentOnClose(code, stdout, stderr)

\* pythonProcess.on('error'): the rejection for a worker that did not start
OnError(kind) ==
    CASE kind = "cad" ->
            Rejected(Error(<<Text("Failed to start CAD generator: "), Text("spawn ENOENT")>>))
      [] kind = "pcb" ->
            Rejected(Error(<<Text("Failed to start PCB generator: "), Text("spawn ENOENT")>>))
      [] kind = "component" ->
            Rejected(Error(<<Text("Failed to start component model generator: "),
                             Text("spawn ENOENT")>>))

(***************************************************************************)
(* State.                                                                  *)
(***************************************************************************)
VARIABLES
    env,                 \* platform and which tools fs.existsSync finds
    parsedDesign,        \* the design as parsed from the planner's answer, before correction
    pc,                  \* where buildProduct stands
    designData,          \* the design document of the build
    compatibilityIssues, \* result of checkEngineCompatibility
    proc,                \* the child process of the current invocation and its promise
    i,                   \* loop index of runAssemblyCADGenerator (1-based)
    allFiles,            \* allFiles of runAssemblyCADGenerator
    allFeedback,         \* allFeedback of runAssemblyCADGenerator
    cadResult,           \* cadResult of buildProduct
    pcbResult,           \* pcbResult of buildProduct, when the layout stage resolved
    result,              \* the Build Result returned, when pc = "done"
    error,               \* the error thrown, when pc = "failed"
    spawned,             \* every spawn call so far: kind, job identifier, job document
    exits                \* how each invocation ended: whether it exited 0 with a well-formed
                         \* document, whether its runner resolved, and with what feedback

vars == <<env, parsedDesign, pc, designData, compatibilityIssues, proc, i, allFiles, allFeedback,
          cadResult, pcbResult, result, error, spawned, exits>>

buildId == <<"b1">>

\* the pipes of a child process and what the worker still has to do, for the
\* specification that follows single reads and writes
NoIo ==
    [toWrite |-> 0, stdinPipe |-> 0, stdinClosed |-> FALSE, consumed |-> 0,
     sawEOF |-> FALSE, outTotal |-> 0, outLeft |-> 0, errLeft |-> 0,
     outPipe |-> 0, errPipe |-> 0, outReceived |-> 0, exited |-> FALSE]

NoProc ==
    [kind |-> "none", jobId |-> <<>>, inv |-> 0, state |-> "none", code |-> Absent,
     stdout |-> <<>>, stderr |-> <<>>, written |-> <<>>, promise |-> Pending,
     io |-> NoIo]

NoError == Error(<<>>)
NoResult == [none |-> TRUE]

(***************************************************************************)
(* Inputs: environments, planner documents, worker behaviours.             *)
(***************************************************************************)
Envs ==
    {[platform |-> "linux", freecad |-> FALSE, kicad |-> FALSE]}
    \cup {[platform |-> "win32", freecad |-> f, kicad |-> k] : f, k \in BOOLEAN}

\* the name of the part at each position of a parts array
PartNames ==
    <<<<"T", "o", "p", " ", "L", "i", "d">>, <<"T", "o", "p", " ", " ", "L", "i", "d">>,
      <<"B", "a", "s", "e">>, <<"C", "l", "i", "p">>>>

\* the wall thickness of the part at each position of a parts array
PartWalls == <<Absent, 100, 300, Absent>>

\* a part as runAssemblyCADGenerator reads it (designData.assembly.parts[i])
AsmPart(name, number, wall) ==
    [part_name |-> name, part_number |-> number, quantity |-> Absent,
     wall_thickness |-> wall, material |-> "", shape_type |-> "",
     dimensions |-> [length |-> 3000, width |-> 3000, height |-> 3000]]

\* the parts arrays of n parts: the planner numbers each part as it likes
PartsArrays(n) ==
    {[k \in 1..n |-> AsmPart(PartNames[k], num[k], PartWalls[k])] : num \in [1..n -> 1..MaxParts]}

AssemblyBlocks ==
    {[present |-> TRUE, is_assembly |-> TRUE, has_parts |-> TRUE, parts |-> ps] :
        ps \in UNION {PartsArrays(n) : n \in 0..MaxParts}}

BoxDoc ==
    [EmptyDoc EXCEPT !.product_type = "enclosure", !.units = "mm",
                     !.length = 5000, !.width = 4000, !.height = 3000]

\* what the model's planner may answer, before autoCorrectDesign
PlannerDocs ==
    {[BoxDoc EXCEPT !.pcb_required = p, !.wall_thickness = w] :
        p \in BOOLEAN, w \in {Absent, 100}}
    \cup {[BoxDoc EXCEPT !.pcb_required = p, !.assembly = a] :
            p \in BOOLEAN, a \in AssemblyBlocks}
    \cup {[BoxDoc EXCEPT !.product_type = "Bicycle frame"],
          [BoxDoc EXCEPT !.use_design_language = TRUE],
          [BoxDoc EXCEPT !.height = Absent, !.width = 300000],
          [BoxDoc EXCEPT !.units = "cm"],
          [BoxDoc EXCEPT !.length = 50],
          [BoxDoc EXCEPT !.units = "inches", !.wall_thickness = 3],
          [BoxDoc EXCEPT !.width = 45000, !.height = 500, !.wall_thickness = 0],
          [BoxDoc EXCEPT !.is_assembly = TRUE, !.has_parts = TRUE,
                         !.parts = <<[EmptyPart EXCEPT !.name = "Base", !.shape_type = "box",
                                                       !.length = 3000]>>]}

\* the result documents a worker of a kind may write
ResultDocs(kind, jobId, inv) ==
    LET files == <<FileRef(jobId, ".step", inv), FileRef(jobId, ".stl", inv)>>
        ok == [EmptyResultDoc EXCEPT !.success = TRUE, !.has_files = TRUE, !.files = files]
    IN  CASE kind = "cad" ->
                {[ok EXCEPT !.triangle_count = 1200, !.file_size = 84],
                 [EmptyResultDoc EXCEPT !.success = TRUE]}
          [] kind = "interpreter" ->
                {ok, [EmptyResultDoc EXCEPT !.error = "engine failed"]}
          [] kind = "pcb" ->
                {[ok EXCEPT !.component_count = 3, !.layers = 2,
                            !.component_file = "exports/pcb/components.json"],
                 [ok EXCEPT !.component_count = 0, !.layers = 2],
                 [EmptyResultDoc EXCEPT !.success = TRUE]}
          [] kind = "component" ->
                {[EmptyResultDoc EXCEPT !.success = TRUE, !.has_component_models = TRUE,
                                        !.component_models = <<FileRef(jobId, ".glb", inv)>>],
                 [EmptyResultDoc EXCEPT !.success = TRUE],
                 [EmptyResultDoc EXCEPT !.error = "no models"]}

StdoutChunks(kind, jobId, inv) ==
    {GarbageChunk} \cup {DocChunk(d) : d \in ResultDocs(kind, jobId, inv)}

\* the lines a worker of a kind may write to its diagnostic stream
StderrLines(kind) ==
    CASE kind = "cad" -> {WarningLine, FreeCADMissingLine}
      [] kind = "interpreter" -> {PlainLine}
      [] kind = "pcb" -> {IndentedNoteLine, KiCadMissingLine}
      [] kind = "component" -> {PlainLine}

ExitCodes == {0, 1}

(***************************************************************************)
(* buildProduct and the runners (database.js).                             *)
(***************************************************************************)
RECURSIVE DropSpaces(_)
DropSpaces(name) ==
    IF name # <<>> /\ Head(name) = " " THEN DropSpaces(Tail(name)) ELSE name

RECURSIVE ReplaceSpaces(_)
\* part_name.replace(/\s+/g, '_')
ReplaceSpaces(name) ==
    IF name = <<>> THEN <<>>
    ELSE IF Head(name) = " " THEN <<"_">> \o ReplaceSpaces(DropSpaces(name))
    ELSE <<Head(name)>> \o ReplaceSpaces(Tail(name))

\* `${buildId}_part${part.part_number}_${part.part_name.replace(/\s+/g, '_')}`
PartId(bid, part) ==
    bid \o <<"_part", ToString(part.part_number), "_">> \o ReplaceSpaces(part.part_name)

RECURSIVE JoinChars(_)
\* the characters of a name as one string
JoinChars(name) ==
    IF name = <<>> THEN "" ELSE Head(name) \o JoinChars(Tail(name))

\* `Warning: Part ${part.part_name} generation failed`
PartFailedWarning(part) ==
    "Warning: Part " \o JoinChars(part.part_name) \o " generation failed"

\* the mutant of PartDesignData: the document's wall thickness and material
\* win over the part's
PartDesignData_DocumentFirst(part, dd) ==
    [length |-> part.dimensions.length,
     width |-> part.dimensions.width,
     height |-> part.dimensions.height,
     units |-> OrStr(dd.units, "mm"),
     wall_thickness |-> OrNum(dd.wall_thickness, OrNum(part.wall_thickness, 200)),
     material |-> OrStr(dd.material, OrStr(part.material, "PLA")),
     product_type |-> part.part_name,
     shape_type |-> OrStr(part.shape_type, OrStr(dd.shape_type, "box"))]

\* partDesignData of runAssemblyCADGenerator
PartDesignData(part, dd) ==
    [length |-> part.dimensions.length,
     width |-> part.dimensions.width,
     height |-> part.dimensions.height,
     units |-> OrStr(dd.units, "mm"),
     wall_thickness |-> OrNum(part.wall_thickness, OrNum(dd.wall_thickness, 200)),
     material |-> OrStr(part.material, OrStr(dd.material, "PLA")),
     product_type |-> part.part_name,
     shape_type |-> OrStr(part.shape_type, OrStr(dd.shape_type, "box"))]

\* product_type?.toLowerCase().includes('bicycle') || ...includes('bike')
IsBicycle(product_type) == product_type \in {"Bicycle frame", "bike rack"}

useInterpreter(dd) == dd.use_design_language \/ IsBicycle(dd.product_type)

IsAssemblyDesign(dd) ==
    dd.assembly.present /\ dd.assembly.is_assembly /\ dd.assembly.has_parts

\* spawn(pythonCmd, [scriptPath, jobId]); stdin.write(JSON.stringify(job)); stdin.end()
Spawn(kind, jobId, job) ==
    /\ proc' = [NoProc EXCEPT !.kind = kind, !.jobId = jobId,
                              !.inv = Len(spawned) + 1, !.state = "running"]
    /\ spawned' = Append(spawned, [kind |-> kind, jobId |-> jobId, job |-> job])

\* the catch block of buildProduct: the error it rethrows
Rethrown(err) ==
    IF MessageIncludes(err.message, "FreeCAD")
    THEN Error(<<Text("CAD Generation Error: ")>> \o err.message
               \o <<Text("Make sure FreeCAD is installed correctly. Visit https://www.freecad.org/downloads.php")>>)
    ELSE IF MessageIncludes(err.message, "AI planning failed")
    THEN Error(<<Text("AI Planning Error: ")>> \o err.message
               \o <<Text("Please check your ANTHROPIC_API_KEY in .env file.")>>)
    ELSE IF MessageIncludes(err.message, "Validation failed")
    THEN Error(<<Text("Design Validation Error: ")>> \o err.message
               \o <<Text("Please provide more specific dimensions and requirements.")>>)
    ELSE err

\* buildProduct throws: the build ends FAILED
Throw(err) ==
    /\ pc' = "failed"
    /\ error' = Rethrown(err)

\* the mutant of BuildResult: the layout feedback is put in front of the
\* geometry feedback
BuildResult_LayoutFirst(dd, cad, pcbFiles, pcbFeedback, componentModels, issues) ==
    [buildId |-> buildId,
     designData |-> dd,
     files |-> [cad |-> IF cad.isAssembly THEN cad
                        ELSE [isAssembly |-> FALSE, files |-> cad.files],
                pcb |-> pcbFiles],
     component_models |-> componentModels,
     engineFeedback |-> pcbFeedback \o cad.feedback,
     compatibilityChecks |-> issues]

\* the object buildProduct returns
BuildResult(dd, cad, pcbFiles, pcbFeedback, componentModels, issues) ==
    [buildId |-> buildId,
     designData |-> dd,
     files |-> [cad |-> IF cad.isAssembly THEN cad
                        ELSE [isAssembly |-> FALSE, files |-> cad.files],
                pcb |-> pcbFiles],
     component_models |-> componentModels,
     engineFeedback |-> cad.feedback \o pcbFeedback,
     compatibilityChecks |-> issues]

\* buildProduct returns: the build ends DONE
Return(pcbFiles, pcbFeedback, componentModels) ==
    /\ pc' = "done"
    /\ result' = BuildResult(designData, cadResult, pcbFiles, pcbFeedback,
                             componentModels, compatibilityIssues)

Init ==
    /\ env \in Envs
    /\ parsedDesign = EmptyDoc
    /\ pc = "plan"
    /\ designData = EmptyDoc
    /\ compatibilityIssues = <<>>
    /\ proc = NoProc
    /\ i = 1
    /\ allFiles = <<>>
    /\ allFeedback = <<>>
    /\ cadResult = NoValue
    /\ pcbResult = NoValue
    /\ result = NoResult
    /\ error = NoError
    /\ spawned = <<>>
    /\ exits = <<>>

\* Step 1: generateDesignFromPrompt answers with a design
Plan ==
    /\ pc = "plan"
    /\ \E raw \in PlannerDocs :
          /\ parsedDesign' = raw
          /\ designData' = autoCorrectDesign(raw)
    /\ pc' = "validate"
    /\ UNCHANGED <<env, compatibilityIssues, proc, i, allFiles, allFeedback,
                   cadResult, pcbResult, result, error, spawned, exits>>

\* Step 1: generateDesignFromPrompt throws
PlanFails ==
    /\ pc = "plan"
    /\ \E m \in {<<Text("AI planning failed: "), Text("Rate limit exceeded")>>,
                 <<Text("Connection error.")>>,
                 <<Text("Failed to parse AI response as JSON: "), Text("Unexpected token"),
                   Text("AI Response: "), Text(ProseAnswer)>>} :
          Throw(Error(m))
    /\ UNCHANGED <<env, parsedDesign, designData, compatibilityIssues, proc, i, allFiles, allFeedback,
                   cadResult, pcbResult, result, spawned, exits>>

\* Step 2: validator.validateDesignData(designData)
Validate ==
    /\ pc = "validate"
    /\ LET v == validateDesignData(designData)
       IN  IF v.ok THEN pc' = "preflight" /\ error' = error
           ELSE Throw(v.error)
    /\ UNCHANGED <<env, parsedDesign, designData, compatibilityIssues, proc, i, allFiles, allFeedback,
                   cadResult, pcbResult, result, spawned, exits>>

\* the mutant of Preflight: a warning of the compatibility check fails the build
Preflight_WarningsBlock ==
    /\ pc = "preflight"
    /\ compatibilityIssues' = checkEngineCompatibility(designData, env)
    /\ IF compatibilityIssues' = <<>>
       THEN pc' = "geometry" /\ error' = error
       ELSE Throw(Error(<<Text(compatibilityIssues'[1])>>))
    /\ UNCHANGED <<env, parsedDesign, designData, proc, i, allFiles, allFeedback,
                   cadResult, pcbResult, result, spawned, exits>>

\* Step 3: checkEngineCompatibility(designData)
Preflight ==
    /\ pc = "preflight"
    /\ compatibilityIssues' = checkEngineCompatibility(designData, env)
    /\ pc' = "geometry"
    /\ UNCHANGED <<env, parsedDesign, designData, proc, i, allFiles, allFeedback,
                   cadResult, pcbResult, result, error, spawned, exits>>

\* the mutant of GeometryStart: the geometry stage does not wait for the
\* validator and the compatibility check
GeometryStart_Unvalidated ==
    /\ pc \in {"validate", "geometry"}
    /\ IF useInterpreter(designData)
       THEN /\ Spawn("interpreter", buildId, designData)
            /\ pc' = "await_cad"
       ELSE IF IsAssemblyDesign(designData)
       THEN /\ pc' = "asm_loop"
            /\ UNCHANGED <<proc, spawned>>
       ELSE /\ Spawn("cad", buildId, designData)
            /\ pc' = "await_cad"
    /\ i' = 1
    /\ allFiles' = <<>>
    /\ allFeedback' = <<>>
    /\ UNCHANGED <<env, parsedDesign, designData, compatibilityIssues,
                   cadResult, pcbResult, result, error, exits>>

\* Step 4: route to the interpreter, the assembly generator or the CAD generator
GeometryStart ==
    /\ pc = "geometry"
    /\ IF useInterpreter(designData)
       THEN /\ Spawn("interpreter", buildId, designData)
            /\ pc' = "await_cad"
       ELSE IF IsAssemblyDesign(designData)
       THEN /\ pc' = "asm_loop"
            /\ UNCHANGED <<proc, spawned>>
       ELSE /\ Spawn("cad", buildId, designData)
            /\ pc' = "await_cad"
    /\ i' = 1
    /\ allFiles' = <<>>
    /\ allFeedback' = <<>>
    /\ UNCHANGED <<env, parsedDesign, designData, compatibilityIssues,
                   cadResult, pcbResult, result, error, exits>>

\* the mutant of AfterGeometry: the layout worker is spawned whatever the
\* design says
AfterGeometry_AlwaysLayout(cad) ==
    /\ cadResult' = cad
    /\ Spawn("pcb", buildId, designData)
    /\ pc' = "await_pcb"
    /\ UNCHANGED result

\* Step 5 onwards, entered when the geometry stage has produced cad:
\* spawn the layout worker if the design requires it, else return
AfterGeometry(cad) ==
    /\ cadResult' = cad
    /\ IF designData.pcb_required
       THEN /\ Spawn("pcb", buildId, designData)
            /\ pc' = "await_pcb"
            /\ UNCHANGED result
       ELSE /\ pc' = "done"
            /\ result' = BuildResult(designData, cad, Null, <<>>, Null, compatibilityIssues)
            /\ UNCHANGED <<proc, spawned>>

\* the for loop of runAssemblyCADGenerator: next part, or return after the last
AssemblyLoop ==
    /\ pc = "asm_loop"
    /\ LET parts == designData.assembly.parts IN
       IF i <= Len(parts)
       THEN /\ Spawn("cad", PartId(buildId, parts[i]), PartDesignData(parts[i], designData))
            /\ pc' = "await_part"
            /\ UNCHANGED <<cadResult, result>>
       ELSE AfterGeometry([files |-> allFiles,
                           feedback |-> allFeedback,
                           isAssembly |-> TRUE,
                           assemblyInfo |-> [totalParts |-> Len(parts)]])
    /\ UNCHANGED <<env, parsedDesign, designData, compatibilityIssues, i, allFiles, allFeedback,
                   pcbResult, error, exits>>

\* await runCADGenerator(partId, partDesignData) inside the loop's try/catch
PartSettled ==
    /\ pc = "await_part"
    /\ proc.promise.status # "pending"
    /\ LET part == designData.assembly.parts[i] IN
       IF proc.promise.status = "resolved"
       THEN /\ allFiles' = Append(allFiles,
                                  [partName |-> part.part_name,
                                   partNumber |-> part.part_number,
                                   quantity |-> OrNum(part.quantity, 1),
                                   files |-> proc.promise.value.files,
                                   material |-> OrStr(part.material,
                                                      OrStr(designData.material, "PLA"))])
            /\ allFeedback' = allFeedback \o proc.promise.value.feedback
       ELSE /\ allFeedback' = Append(allFeedback, PartFailedWarning(part))
            /\ UNCHANGED allFiles
    /\ i' = i + 1
    /\ pc' = "asm_loop"
    /\ proc' = NoProc
    /\ UNCHANGED <<env, parsedDesign, designData, compatibilityIssues,
                   cadResult, pcbResult, result, error, spawned, exits>>

\* await runGeometryInterpreter / runCADGenerator in buildProduct
CadSettled ==
    /\ pc = "await_cad"
    /\ proc.promise.status # "pending"
    /\ IF proc.promise.status = "resolved"
       THEN /\ AfterGeometry([files |-> proc.promise.value.files,
                              feedback |-> proc.promise.value.feedback,
                              isAssembly |-> FALSE])
            /\ UNCHANGED error
       ELSE /\ Throw(proc.promise.error)
            /\ UNCHANGED <<cadResult, result, proc, spawned>>
    /\ UNCHANGED <<env, parsedDesign, designData, compatibilityIssues, i, allFiles, allFeedback,
                   pcbResult, exits>>

\* the mutant of IsKiCadUnavailable: the catch block tests a looser substring
IsKiCadUnavailable_AnyPcbError(err) ==
    MessageIncludes(err.message, "KiCad Python API is not installed")
    \/ MessageIncludes(err.message, "PCB generator")

\* error.message.includes('KiCad Python API is not installed')
IsKiCadUnavailable(err) ==
    MessageIncludes(err.message, "KiCad Python API is not installed")

\* await runPCBGenerator in buildProduct, with its catch block
PcbSettled ==
    /\ pc = "await_pcb"
    /\ proc.promise.status # "pending"
    /\ IF proc.promise.status = "resolved"
       THEN /\ pcbResult' = proc.promise.value
            /\ IF ~FalsyStr(proc.promise.value.component_file)
               THEN /\ Spawn("component", buildId, designData)
                    /\ pc' = "await_component"
                    /\ UNCHANGED result
               ELSE /\ Return(Some(proc.promise.value.files),
                              proc.promise.value.feedback, Null)
                    /\ UNCHANGED <<proc, spawned>>
            /\ UNCHANGED error
       ELSE IF IsKiCadUnavailable(proc.promise.error)
       THEN /\ Return(Null, <<>>, Null)
            /\ UNCHANGED <<pcbResult, error, proc, spawned>>
       ELSE /\ Throw(proc.promise.error)
            /\ UNCHANGED <<pcbResult, result, proc, spawned>>
    /\ UNCHANGED <<env, parsedDesign, designData, compatibilityIssues, i, allFiles, allFeedback,
                   cadResult, exits>>

\* await runComponentModelGenerator in buildProduct, with its catch block
ComponentSettled ==
    /\ pc = "await_component"
    /\ proc.promise.status # "pending"
    /\ LET componentModels ==
               IF proc.promise.status = "resolved" THEN proc.promise.value
               ELSE [EmptyResultDoc EXCEPT !.has_component_models = TRUE]
       IN  \* componentModels?.component_models || null: an empty array is truthy
           Return(Some(pcbResult.files), pcbResult.feedback,
                  IF componentModels.has_component_models
                  THEN Some(componentModels.component_models)
                  ELSE Null)
    /\ UNCHANGED <<env, parsedDesign, designData, compatibilityIssues, proc, i, allFiles, allFeedback,
                   cadResult, pcbResult, error, spawned, exits>>

(***************************************************************************)
(* The worker process, as the runner observes it.                          *)
(***************************************************************************)
\* stdout 'data': the worker writes a chunk, the handler appends it
WorkerStdout ==
    /\ proc.state = "running"
    /\ Len(proc.stdout) < MaxStdoutChunks
    /\ \E c \in StdoutChunks(proc.kind, proc.jobId, proc.inv) :
          proc' = [proc EXCEPT !.stdout = Append(@, c)]
    /\ UNCHANGED <<env, parsedDesign, pc, designData, compatibilityIssues, i, allFiles, allFeedback,
                   cadResult, pcbResult, result, error, spawned, exits>>

\* stderr 'data': the worker writes a line, the handler appends it
WorkerStderr ==
    /\ proc.state = "running"
    /\ Len(proc.written) < MaxStderrLines
    /\ \E line \in StderrLines(proc.kind) :
          proc' = [proc EXCEPT !.stderr = Append(@, line), !.written = Append(@, line)]
    /\ UNCHANGED <<env, parsedDesign, pc, designData, compatibilityIssues, i, allFiles, allFeedback,
                   cadResult, pcbResult, result, error, spawned, exits>>

\* a promise settles once: later resolve/reject calls are ignored
Settle(promise, outcome) ==
    IF promise.status = "pending" THEN outcome ELSE promise

\* the feedback list a runner's promise resolved with (partResult.feedback,
\* cadResult.feedback, pcbResult.feedback)
ResolvedFeedback(kind, promise) ==
    IF promise.status = "resolved" /\ kind # "component"
    THEN promise.value.feedback ELSE <<>>

\* 'close': the worker exits with a code and the close handler runs
WorkerClose ==
    /\ proc.state = "running"
    /\ \E code \in ExitCodes :
          /\ proc' = [proc EXCEPT
                        !.state = "closed",
                        !.code = code,
                        !.promise = Settle(@, OnClose(proc.kind, code, proc.stdout, proc.stderr))]
          /\ exits' = Append(exits, [inv |-> proc.inv,
                                     ok |-> code = 0 /\ WellFormedFor(proc.kind, proc.stdout),
                                     resolved |-> proc'.promise.status = "resolved",
                                     feedback |-> ResolvedFeedback(proc.kind, proc'.promise)])
    /\ UNCHANGED <<env, parsedDesign, pc, designData, compatibilityIssues, i, allFiles, allFeedback,
                   cadResult, pcbResult, result, error, spawned>>

\* the worker never exits: no 'close' event will come
WorkerHangs ==
    /\ proc.state = "running"
    /\ proc' = [proc EXCEPT !.state = "hung"]
    /\ UNCHANGED <<env, parsedDesign, pc, designData, compatibilityIssues, i, allFiles, allFeedback,
                   cadResult, pcbResult, result, error, spawned, exits>>

\* the worker cannot be started: the child emits 'error', then 'close' with a
\* negative code; runGeometryInterpreter registers no 'error' listener, so there
\* the event is thrown as an uncaught exception and the server process ends
WorkerFailsToStart ==
    /\ proc.state = "running"
    /\ proc.stdout = <<>>
    /\ proc.written = <<>>
    /\ IF proc.kind = "interpreter"
       THEN /\ pc' = "crashed"
            /\ proc' = [proc EXCEPT !.state = "failed_to_start"]
       ELSE /\ pc' = pc
            /\ proc' = [proc EXCEPT
                          !.state = "failed_to_start",
                          !.promise = Settle(Settle(@, OnError(proc.kind)),
                                             OnClose(proc.kind, -2, proc.stdout, proc.stderr))]
    /\ exits' = Append(exits, [inv |-> proc.inv, ok |-> FALSE, resolved |-> FALSE,
                               feedback |-> <<>>])
    /\ UNCHANGED <<env, parsedDesign, designData, compatibilityIssues, i, allFiles, allFeedback,
                   cadResult, pcbResult, result, error, spawned>>

Next ==
    \/ Plan
    \/ PlanFails
    \/ Validate
    \/ Preflight
    \/ GeometryStart
    \/ AssemblyLoop
    \/ PartSettled
    \/ CadSettled
    \/ PcbSettled
    \/ ComponentSettled
    \/ WorkerStdout
    \/ WorkerStderr
    \/ WorkerClose
    \/ WorkerHangs
    \/ WorkerFailsToStart

Spec == Init /\ [][Next]_vars

(***************************************************************************)
(* The validator on its own: validateDesignData is also called on designs  *)
(* that did not pass through autoCorrectDesign (buildProductFromDesign).   *)
(***************************************************************************)
NumVals == {Absent, 0, 50, 3000, 300000}

RECURSIVE SeqsUpTo(_, _)
\* the sequences over S of length at most n
SeqsUpTo(S, n) ==
    IF n = 0 THEN {<<>>}
    ELSE LET shorter == SeqsUpTo(S, n - 1)
         IN  shorter \cup {Append(q, x) : q \in {r \in shorter : Len(r) = n - 1}, x \in S}

BoxFamily ==
    {[EmptyDoc EXCEPT !.product_type = pt, !.units = u, !.shape_type = sh,
                      !.length = l, !.width = w, !.height = h, !.wall_thickness = wt] :
        pt \in {"", "enclosure"}, u \in {"", "mm", "inches", "cm"}, sh \in {"", "box"},
        l \in NumVals, w \in NumVals, h \in NumVals, wt \in {Absent, 0, 100, 250}}

RoundFamily ==
    {[EmptyDoc EXCEPT !.product_type = "holder", !.units = u, !.shape_type = sh,
                      !.diameter = d, !.width = w, !.length = l, !.height = h] :
        u \in {"mm", "inches"},
        sh \in {"cylinder", "sphere", "cone", "hook", "loft"},
        d \in {Absent, 50, 3000}, w \in {Absent, 3000},
        l \in {Absent, 50, 3000}, h \in {Absent, 300000}}

GearFamily ==
    {[EmptyDoc EXCEPT !.product_type = "gear", !.units = "mm", !.shape_type = "spur_gear",
                      !.teeth = t, !.module = m, !.diameter = d, !.size = z] :
        t \in {Absent, 20}, m \in {Absent, 200}, d \in {Absent, 50, 3000},
        z \in {Absent, 50}}

PcbFamily ==
    {[EmptyDoc EXCEPT !.product_type = "enclosure", !.units = "mm",
                      !.length = 5000, !.width = 4000, !.height = 3000,
                      !.wall_thickness = wt, !.pcb_required = TRUE,
                      !.pcb_details = [present |-> TRUE, width |-> pw, height |-> 3000,
                                       layers |-> ly, components |-> 1]] :
        wt \in {100, 250}, pw \in {Absent, 4000}, ly \in {Absent, 2, 3}}

ValidatorParts ==
    {[EmptyPart EXCEPT !.name = n, !.shape_type = sh, !.length = l, !.wall_thickness = wt] :
        n \in {"", "Base"}, sh \in {"", "box"}, l \in {Absent, 50, 3000}, wt \in {Absent, 100}}

AssemblyFamily ==
    {[EmptyDoc EXCEPT !.product_type = "case", !.units = u, !.is_assembly = TRUE,
                      !.has_parts = TRUE, !.parts = ps] :
        u \in {"", "mm"}, ps \in SeqsUpTo(ValidatorParts, MaxParts)}

ValidatorDocs == BoxFamily \cup RoundFamily \cup GearFamily \cup PcbFamily \cup AssemblyFamily

InitValidator ==
    /\ env \in Envs
    /\ pc = "validate"
    /\ designData \in ValidatorDocs
    /\ parsedDesign = designData
    /\ compatibilityIssues = <<>>
    /\ proc = NoProc
    /\ i = 1
    /\ allFiles = <<>>
    /\ allFeedback = <<>>
    /\ cadResult = NoValue
    /\ pcbResult = NoValue
    /\ result = NoResult
    /\ error = NoError
    /\ spawned = <<>>
    /\ exits = <<>>

NextValidator == Validate

SpecValidator == InitValidator /\ [][NextValidator]_vars

(***************************************************************************)
(* The planner's correction on its own: generateDesignFromPrompt runs       *)
(* autoCorrectDesign on every answer; on a modification request the answer  *)
(* is the previous, already corrected design.                               *)
(***************************************************************************)
CorrectorDocs ==
    {[EmptyDoc EXCEPT !.product_type = pt, !.units = u, !.shape_type = sh, !.material = m,
                      !.length = 5000, !.width = 4000, !.height = 3000,
                      !.wall_thickness = wt] :
        pt \in {"", "enclosure"}, u \in {"", "mm", "inches", "cm"}, sh \in {"", "box"},
        m \in {"", "ABS"}, wt \in {Absent, 0, 3, 6, 10, 50, 100, 150, 250, 400}}

InitCorrector ==
    /\ env \in Envs
    /\ pc = "correct"
    /\ designData \in CorrectorDocs
    /\ parsedDesign = designData
    /\ compatibilityIssues = <<>>
    /\ proc = NoProc
    /\ i = 1
    /\ allFiles = <<>>
    /\ allFeedback = <<>>
    /\ cadResult = NoValue
    /\ pcbResult = NoValue
    /\ result = NoResult
    /\ error = NoError
    /\ spawned = <<>>
    /\ exits = <<>>

\* designData = autoCorrectDesign(designData) on the planner's answer
AutoCorrect ==
    /\ pc = "correct"
    /\ designData' = autoCorrectDesign(designData)
    /\ pc' = "recorrect"
    /\ UNCHANGED <<env, parsedDesign, compatibilityIssues, proc, i, allFiles, allFeedback,
                   cadResult, pcbResult, result, error, spawned, exits>>

\* the same step on the answer to a modification request that repeats the
\* corrected design
AutoCorrectAgain ==
    /\ pc = "recorrect"
    /\ designData' = autoCorrectDesign(designData)
    /\ pc' = "validate"
    /\ UNCHANGED <<env, parsedDesign, compatibilityIssues, proc, i, allFiles, allFeedback,
                   cadResult, pcbResult, result, error, spawned, exits>>

NextCorrector ==
    \/ AutoCorrect
    \/ AutoCorrectAgain
    \/ Validate

SpecCorrector == InitCorrector /\ [][NextCorrector]_vars

(***************************************************************************)
(* The assembly generator on its own: runAssemblyCADGenerator from its      *)
(* first statement, on corrected and validated documents whose parts carry  *)
(* their own wall thickness and material, or none.                          *)
(***************************************************************************)
\* the parts arrays of n parts with part-level values
OverridingParts(n) ==
    {[k \in 1..n |-> [AsmPart(PartNames[k], k, wt[k]) EXCEPT !.material = mat[k]]] :
        wt \in [1..n -> {Absent, 0, 100}], mat \in [1..n -> {"", "ABS"}]}

\* planner answers that declare an assembly
OverridingDocs ==
    {[BoxDoc EXCEPT !.units = u, !.material = mat, !.wall_thickness = wt,
                    !.assembly = [present |-> TRUE, is_assembly |-> TRUE,
                                  has_parts |-> TRUE, parts |-> ps]] :
        u \in {"mm", "inches"}, mat \in {"", "PETG"}, wt \in {Absent, 300},
        ps \in UNION {OverridingParts(n) : n \in 1..MaxParts}}

InitAssembly ==
    /\ env \in {[platform |-> "linux", freecad |-> FALSE, kicad |-> FALSE]}
    /\ parsedDesign \in {d \in OverridingDocs : validateDesignData(autoCorrectDesign(d)).ok}
    /\ designData = autoCorrectDesign(parsedDesign)
    /\ pc = "asm_loop"
    /\ compatibilityIssues = checkEngineCompatibility(designData, env)
    /\ proc = NoProc
    /\ i = 1
    /\ allFiles = <<>>
    /\ allFeedback = <<>>
    /\ cadResult = NoValue
    /\ pcbResult = NoValue
    /\ result = NoResult
    /\ error = NoError
    /\ spawned = <<>>
    /\ exits = <<>>

NextAssembly ==
    \/ AssemblyLoop
    \/ WorkerStdout
    \/ WorkerClose
    \/ PartSettled

SpecAssembly == InitAssembly /\ [][NextAssembly]_vars

(***************************************************************************)
(* Feedback extraction on its own: one geometry or layout worker that has   *)
(* written its result document writes an analysis report to its            *)
(* diagnostic stream, line by line, and exits.                              *)
(***************************************************************************)
\* the lines of an analysis report
AnalysisLines(kind) ==
    IF kind = "cad"
    THEN {WarningLine, IndentedNoteLine, SignLine, BeginMarkerLine, EndMarkerLine,
          LayerHeightLine, PrintTimeLine, PlainLine}
    ELSE {WarningLine, IndentedNoteLine, SignLine, PlainLine}

\* a geometry result as buildProduct holds it when the layout stage starts
ResolvedCad ==
    [files |-> <<FileRef(buildId, ".step", 1), FileRef(buildId, ".stl", 1)>>,
     feedback |-> <<>>, isAssembly |-> FALSE]

InitFeedback ==
    /\ env \in {[platform |-> "linux", freecad |-> FALSE, kicad |-> FALSE]}
    /\ parsedDesign \in {[BoxDoc EXCEPT !.pcb_required = p] : p \in BOOLEAN}
    /\ designData = autoCorrectDesign(parsedDesign)
    /\ compatibilityIssues = checkEngineCompatibility(designData, env)
    /\ i = 1
    /\ allFiles = <<>>
    /\ allFeedback = <<>>
    /\ pcbResult = NoValue
    /\ result = NoResult
    /\ error = NoError
    /\ IF designData.pcb_required
       THEN /\ pc = "await_pcb"
            /\ cadResult = ResolvedCad
            /\ spawned = <<[kind |-> "cad", jobId |-> buildId, job |-> designData],
                           [kind |-> "pcb", jobId |-> buildId, job |-> designData]>>
            /\ exits = <<[inv |-> 1, ok |-> TRUE, resolved |-> TRUE, feedback |-> <<>>]>>
            /\ \E d \in ResultDocs("pcb", buildId, 2) :
                  proc = [NoProc EXCEPT !.kind = "pcb", !.jobId = buildId, !.inv = 2,
                                        !.state = "running", !.stdout = <<DocChunk(d)>>]
       ELSE /\ pc = "await_cad"
            /\ cadResult = NoValue
            /\ spawned = <<[kind |-> "cad", jobId |-> buildId, job |-> designData]>>
            /\ exits = <<>>
            /\ \E d \in ResultDocs("cad", buildId, 1) :
                  proc = [NoProc EXCEPT !.kind = "cad", !.jobId = buildId, !.inv = 1,
                                        !.state = "running", !.stdout = <<DocChunk(d)>>]

\* stderr 'data': the worker writes a line of its report, the handler appends it
AnalysisStderr ==
    /\ proc.state = "running"
    /\ Len(proc.written) < MaxAnalysisLines
    /\ \E line \in AnalysisLines(proc.kind) :
          proc' = [proc EXCEPT !.stderr = Append(@, line), !.written = Append(@, line)]
    /\ UNCHANGED <<env, parsedDesign, pc, designData, compatibilityIssues, i, allFiles, allFeedback,
                   cadResult, pcbResult, result, error, spawned, exits>>

NextFeedback ==
    \/ AnalysisStderr
    \/ WorkerClose

SpecFeedback == InitFeedback /\ [][NextFeedback]_vars

(***************************************************************************)
(* buildProductFromDesign (database.js): the chat route builds from the     *)
(* design of the chat answer, which has not passed autoCorrectDesign.       *)
(***************************************************************************)
\* evaluating an identifier that no scope declares
ReferenceError(identifier) ==
    [name |-> "ReferenceError", field |-> "",
     message |-> <<Text(identifier), Text(" is not defined")>>]

InitFromDesign ==
    /\ env \in Envs
    /\ designData \in PlannerDocs
    /\ parsedDesign = designData
    /\ pc = "fd_validate"
    /\ compatibilityIssues = <<>>
    /\ proc = NoProc
    /\ i = 1
    /\ allFiles = <<>>
    /\ allFeedback = <<>>
    /\ cadResult = NoValue
    /\ pcbResult = NoValue
    /\ result = NoResult
    /\ error = NoError
    /\ spawned = <<>>
    /\ exits = <<>>

\* validator.validateDesignData(designData), then runCADGenerator is called;
\* the catch block rethrows the error as it is
FromDesignValidate ==
    /\ pc = "fd_validate"
    /\ LET v == validateDesignData(designData)
       IN  IF v.ok
           THEN /\ Spawn("cad", buildId, designData)
                /\ pc' = "fd_await_cad"
                /\ UNCHANGED error
           ELSE /\ pc' = "failed"
                /\ error' = v.error
                /\ UNCHANGED <<proc, spawned>>
    /\ UNCHANGED <<env, parsedDesign, designData, compatibilityIssues, i, allFiles, allFeedback,
                   cadResult, pcbResult, result, exits>>

\* await runCADGenerator, then the return statement: its object literal reads
\* pcbFiles, which neither the function nor the module declares
FromDesignCadSettled ==
    /\ pc = "fd_await_cad"
    /\ proc.promise.status # "pending"
    /\ pc' = "failed"
    /\ IF proc.promise.status = "resolved"
       THEN /\ cadResult' = proc.promise.value
            /\ error' = ReferenceError("pcbFiles")
       ELSE /\ error' = proc.promise.error
            /\ UNCHANGED cadResult
    /\ UNCHANGED <<env, parsedDesign, designData, compatibilityIssues, proc, i, allFiles,
                   allFeedback, pcbResult, result, spawned, exits>>

NextFromDesign ==
    \/ FromDesignValidate
    \/ WorkerStdout
    \/ WorkerStderr
    \/ WorkerClose
    \/ WorkerFailsToStart
    \/ FromDesignCadSettled

SpecFromDesign == InitFromDesign /\ [][NextFromDesign]_vars

(***************************************************************************)
(* One invocation of runCADGenerator read by read and write by write.  The  *)
(* serialized job sits in the write buffer of the child's stdin (write and  *)
(* end return at once); the three pipes hold PipeCap chunks; the worker     *)
(* reads its input to the end, writes to its two streams in any order,      *)
(* blocks on a full pipe, and exits; the server's event loop moves data as  *)
(* the pipes allow and emits 'close' when the child has exited and both     *)
(* streams have ended.                                                      *)
(***************************************************************************)
\* the document the worker writes, in outTotal chunks
RunnerDoc ==
    [EmptyResultDoc EXCEPT !.success = TRUE, !.has_files = TRUE,
                           !.files = <<FileRef(buildId, ".step", 1), FileRef(buildId, ".stl", 1)>>,
                           !.triangle_count = 1200, !.file_size = 84]

InitRunner ==
    /\ env \in {[platform |-> "linux", freecad |-> FALSE, kicad |-> FALSE]}
    /\ parsedDesign = BoxDoc
    /\ designData = autoCorrectDesign(parsedDesign)
    /\ compatibilityIssues = checkEngineCompatibility(designData, env)
    /\ pc = "await_cad"
    /\ i = 1
    /\ allFiles = <<>>
    /\ allFeedback = <<>>
    /\ cadResult = NoValue
    /\ pcbResult = NoValue
    /\ result = NoResult
    /\ error = NoError
    /\ spawned = <<[kind |-> "cad", jobId |-> buildId, job |-> designData]>>
    /\ exits = <<>>
    /\ \E nOut, nErr \in 0..MaxWorkerWrites :
          proc = [NoProc EXCEPT !.kind = "cad", !.jobId = buildId, !.inv = 1,
                                !.state = "running",
                                !.io = [NoIo EXCEPT !.toWrite = JobChunks, !.outTotal = nOut,
                                                    !.outLeft = nOut, !.errLeft = nErr]]

\* a step that changes the child process only
OnlyProc ==
    UNCHANGED <<env, parsedDesign, pc, designData, compatibilityIssues, i, allFiles, allFeedback,
                cadResult, pcbResult, result, error, spawned>>

\* the stream moves a buffered chunk of the job into the stdin pipe
StdinFlush ==
    /\ proc.state = "running"
    /\ proc.io.toWrite > 0
    /\ proc.io.stdinPipe < PipeCap
    /\ proc' = [proc EXCEPT !.io.toWrite = @ - 1, !.io.stdinPipe = @ + 1]
    /\ OnlyProc /\ UNCHANGED exits

\* stdin.end(): the pipe is closed once the buffer is flushed
StdinEnd ==
    /\ proc.state = "running"
    /\ proc.io.toWrite = 0
    /\ ~proc.io.stdinClosed
    /\ proc' = [proc EXCEPT !.io.stdinClosed = TRUE]
    /\ OnlyProc /\ UNCHANGED exits

\* the worker reads a chunk of its input
WorkerReads ==
    /\ ~proc.io.exited
    /\ proc.io.stdinPipe > 0
    /\ proc' = [proc EXCEPT !.io.stdinPipe = @ - 1, !.io.consumed = @ + 1]
    /\ OnlyProc /\ UNCHANGED exits

\* the worker reads the end of its input
WorkerSeesEOF ==
    /\ ~proc.io.exited
    /\ ~proc.io.sawEOF
    /\ proc.io.stdinPipe = 0
    /\ proc.io.stdinClosed
    /\ proc' = [proc EXCEPT !.io.sawEOF = TRUE]
    /\ OnlyProc /\ UNCHANGED exits

\* the worker writes a chunk of its result document; the write blocks while
\* the pipe is full
WorkerWritesOut ==
    /\ ~proc.io.exited
    /\ proc.io.outLeft > 0
    /\ proc.io.outPipe < PipeCap
    /\ proc' = [proc EXCEPT !.io.outLeft = @ - 1, !.io.outPipe = @ + 1]
    /\ OnlyProc /\ UNCHANGED exits

\* the worker writes a line of diagnostics; the write blocks while the pipe
\* is full
WorkerWritesErr ==
    /\ ~proc.io.exited
    /\ proc.io.errLeft > 0
    /\ proc.io.errPipe < PipeCap
    /\ proc' = [proc EXCEPT !.io.errLeft = @ - 1, !.io.errPipe = @ + 1]
    /\ OnlyProc /\ UNCHANGED exits

\* the worker has read its input and written everything: it exits
WorkerExits ==
    /\ proc.state = "running"
    /\ ~proc.io.exited
    /\ proc.io.sawEOF
    /\ proc.io.outLeft = 0
    /\ proc.io.errLeft = 0
    /\ \E code \in ExitCodes :
          proc' = [proc EXCEPT !.io.exited = TRUE, !.code = code]
    /\ OnlyProc /\ UNCHANGED exits

\* the mutant of StderrData: the diagnostic stream is read only when the
\* output stream has ended
StderrData_AfterStdout ==
    /\ proc.state = "running"
    /\ proc.io.errPipe > 0
    /\ proc.io.exited /\ proc.io.outPipe = 0
    /\ proc' = [proc EXCEPT !.io.errPipe = @ - 1,
                            !.stderr = Append(@, WarningLine),
                            !.written = Append(@, WarningLine)]
    /\ OnlyProc /\ UNCHANGED exits

\* stdout 'data': stdout += data; the text parses once the whole document is in
StdoutData ==
    /\ proc.state = "running"
    /\ proc.io.outPipe > 0
    /\ proc' = [proc EXCEPT !.io.outPipe = @ - 1,
                            !.io.outReceived = @ + 1,
                            !.stdout = IF proc.io.outReceived + 1 = proc.io.outTotal
                                       THEN <<DocChunk(RunnerDoc)>>
                                       ELSE <<GarbageChunk>>]
    /\ OnlyProc /\ UNCHANGED exits

\* stderr 'data': stderr += data
StderrData ==
    /\ proc.state = "running"
    /\ proc.io.errPipe > 0
    /\ proc' = [proc EXCEPT !.io.errPipe = @ - 1,
                            !.stderr = Append(@, WarningLine),
                            !.written = Append(@, WarningLine)]
    /\ OnlyProc /\ UNCHANGED exits

\* 'close': the child has exited and its streams have ended; the close
\* handler settles the promise
RunnerClose ==
    /\ proc.state = "running"
    /\ proc.io.exited
    /\ proc.io.outPipe = 0
    /\ proc.io.errPipe = 0
    /\ proc' = [proc EXCEPT
                  !.state = "closed",
                  !.promise = Settle(@, OnClose(proc.kind, proc.code, proc.stdout, proc.stderr))]
    /\ exits' = Append(exits, [inv |-> proc.inv,
                               ok |-> proc.code = 0 /\ WellFormedFor(proc.kind, proc.stdout),
                               resolved |-> proc'.promise.status = "resolved",
                               feedback |-> ResolvedFeedback(proc.kind, proc'.promise)])
    /\ OnlyProc

NextRunner ==
    \/ StdinFlush
    \/ StdinEnd
    \/ WorkerReads
    \/ WorkerSeesEOF
    \/ WorkerWritesOut
    \/ WorkerWritesErr
    \/ WorkerExits
    \/ StdoutData
    \/ StderrData
    \/ RunnerClose

SpecRunner == InitRunner /\ [][NextRunner]_vars

\* the event loop keeps serving ready streams and the worker keeps running
\* while a step of it is possible
FairSpecRunner == SpecRunner /\ WF_vars(NextRunner)

(***************************************************************************)
(* Properties.                                                             *)
(***************************************************************************)
GeometryKinds == {"cad", "interpreter"}

\* the invocations that have ended and were geometry jobs that failed
FailedGeometryRuns ==
    {k \in 1..Len(exits) : spawned[exits[k].inv].kind \in GeometryKinds /\ ~exits[k].ok}

\* C1: a failed geometry worker invocation (non-zero exit or output that is not
\* the expected document), of a single-part design or of any part of an
\* assembly, is fatal: no Build Result is ever returned after it.
C1_GeometryFailureIsFatal ==
    FailedGeometryRuns # {} => pc # "done" /\ result = NoResult

\* the fields a thrown validation error names in its message
NamedFields(err) ==
    {err.message[k].subject : k \in {j \in 1..Len(err.message) : err.message[j].kind = "item"}}

\* every field of a single-part document that violates a rule of the validator:
\* the shape category's required fields, the unit system, and the range of
\* every present dimension and of the wall thickness
ViolatedFields(d) ==
    {RequiredFieldErrors(d)[k].field : k \in 1..Len(RequiredFieldErrors(d))}
    \cup (IF ~FalsyStr(d.units) /\ d.units \notin UnitsAllowed THEN {"units"} ELSE {})
    \cup (IF d.units \in UnitsAllowed
          THEN {dims[k] : k \in {j \in 1..Len(dims) : DimOutOfRange(d, dims[j])}}
               \cup (IF d.wall_thickness # Absent /\ d.wall_thickness < WallMin(d)
                     THEN {"wall_thickness"} ELSE {})
          ELSE {})

\* the build failed in the validator
ValidationFailed ==
    /\ pc = "failed"
    /\ \E k \in 1..Len(error.message) : error.message[k].kind = "item"

\* C2: when validation of a single-part document fails, the one error thrown
\* names every violated field (missing required fields and out-of-range
\* dimensions or wall thickness alike), not only the first encountered.
C2_ErrorNamesEveryViolation ==
    (ValidationFailed /\ ~(designData.is_assembly /\ designData.has_parts)
        /\ PcbThrow(designData) = 0)
    => ViolatedFields(designData) \subseteq NamedFields(error)

\* the layout worker ended, and the cause it reported is that its required
\* tool is not installed: it exited non-zero with the tool's message on its
\* diagnostic stream
LayoutToolNotFound ==
    /\ proc.kind = "pcb"
    /\ proc.state = "closed"
    /\ proc.code # 0
    /\ \E k \in 1..Len(proc.written) : proc.written[k] = KiCadMissingLine

\* the layout worker invocation failed: it did not start, exited non-zero, or
\* exited 0 with output that is not the expected document
LayoutFailed ==
    /\ proc.kind = "pcb"
    /\ \/ proc.state = "failed_to_start"
       \/ proc.state = "closed" /\ (proc.code # 0 \/ ~WellFormed(proc.stdout))

\* the entries of a Build Result's feedback lists that report a skipped layout stage
LayoutSkipNotes ==
    {"KiCad not found - PCB generation will be skipped",
     "KiCad not available - PCB generation skipped"}

RangeOf(seq) == {seq[k] : k \in 1..Len(seq)}

\* C3: when the layout stage fails because its tool is not found, the build
\* still returns a Build Result, with files.pcb null and a note about the
\* skipped stage in the result's feedback.
C3_ToolNotFoundSkipsLayoutWithNote ==
    (LayoutToolNotFound /\ pc # "await_pcb")
    => /\ pc = "done"
       /\ result.files.pcb = Null
       /\ (RangeOf(result.engineFeedback) \cup RangeOf(result.compatibilityChecks))
             \cap LayoutSkipNotes # {}

C5_NonZeroExitRejectsWithStderr ==
    (proc.state = "closed" /\ proc.code # 0)
    => /\ proc.promise.status = "rejected"
       /\ CarriedStderr(proc.promise.error.message) = proc.written

\* a worker wrote a well-formed document and diagnostics, then exited non-zero
C5_Witness ==
    /\ proc.state = "closed"
    /\ proc.code = 1
    /\ proc.kind = "component"
    /\ WellFormedFor(proc.kind, proc.stdout)
    /\ Len(proc.written) = MaxStderrLines

\* the output stream does not hold the expected result document: it is not
\* one JSON document, or (geometry and layout workers) it lacks the file list
Unparsable(kind, stdout) ==
    \/ ~Parses(stdout)
    \/ kind \in {"cad", "pcb", "interpreter"} /\ ~stdout[1].doc.has_files

\* the first words of the error a worker kind's runner gives for a non-zero exit
ExitErrorHead(kind) == OnClose(kind, 1, <<>>, <<>>).error.message[1].text

\* C6: a worker that exits 0 with output that does not parse as the expected
\* result document makes the invocation reject, never resolve, and the error
\* is a parse error, different from the error given for a non-zero exit.
C6_UnparsableOutputIsProtocolError ==
    (proc.state = "closed" /\ proc.code = 0 /\ Unparsable(proc.kind, proc.stdout))
    => /\ proc.promise.status = "rejected"
       /\ proc.promise.error.message[1].text # ExitErrorHead(proc.kind)

\* the layout worker wrote diagnostics and text that is not JSON, then exited 0
C6_Witness ==
    /\ proc.kind = "pcb"
    /\ proc.state = "closed"
    /\ proc.code = 0
    /\ proc.stdout = <<GarbageChunk>>
    /\ proc.written # <<>>

CadFileRefs(cad) ==
    IF cad.isAssembly
    THEN UNION {RangeOf(cad.files[k].files) : k \in 1..Len(cad.files)}
    ELSE RangeOf(cad.files)

\* every file reference a Build Result carries
ResultFileRefs(r) ==
    CadFileRefs(r.files.cad)
    \cup (IF r.files.pcb.null THEN {} ELSE RangeOf(r.files.pcb.v))
    \cup (IF r.component_models.null THEN {} ELSE RangeOf(r.component_models.v))

\* the invocations that exited 0 with a well-formed document
SucceededRuns == {exits[k].inv : k \in {j \in 1..Len(exits) : exits[j].ok}}

C9_HungGeometryWorkerFailsBuild ==
    (proc.state = "hung" /\ proc.kind \in GeometryKinds) ~> (pc = "failed")

\* the jobs submitted to the CAD generator so far, in order
CadJobs ==
    LET IsCad(sp) == sp.kind = "cad" IN SelectSeq(spawned, IsCad)

\* C10: for an assembly of N parts exactly N geometry jobs are submitted, in
\* the order of the parts array, and the k-th job identifier carries the
\* number k, whatever part_number the part carries.
C10_JobsNumberedByPosition ==
    (IsAssemblyDesign(designData) /\ ~useInterpreter(designData))
    => LET parts == designData.assembly.parts IN
       /\ Len(CadJobs) <= Len(parts)
       /\ \A k \in 1..Len(CadJobs) :
             CadJobs[k].jobId =
                buildId \o <<"_part", ToString(k), "_">> \o ReplaceSpaces(parts[k].part_name)
       /\ pc \in {"await_pcb", "await_component", "done"} => Len(CadJobs) = Len(parts)

\* the validator's test for an assembly document
ValidatorSeesAssembly(d) == d.is_assembly /\ d.has_parts

\* the document declares an assembly of at least one part, in the assembly
\* block the orchestrator reads or in the properties the validator reads
DeclaresAssembly(d) ==
    \/ IsAssemblyDesign(d) /\ Len(d.assembly.parts) >= 1
    \/ ValidatorSeesAssembly(d) /\ Len(d.parts) >= 1

\* the declared part names, in declared order
DeclaredNames(d) ==
    IF IsAssemblyDesign(d)
    THEN [k \in 1..Len(d.assembly.parts) |-> d.assembly.parts[k].part_name]
    ELSE [k \in 1..Len(d.parts) |-> d.parts[k].name]

\* the part names of a per-part manifest list, in order
ManifestNames(files) == [k \in 1..Len(files) |-> files[k].partName]

\* C11: a document that declares an assembly of N >= 1 named parts and whose
\* build returns a Build Result gets isAssembly = true and an N-element
\* manifest list naming the declared parts in declared order; the validator
\* and the orchestrator agree on which documents are assemblies.
C11_AssemblyManifestNamesParts ==
    /\ (pc = "done" /\ DeclaresAssembly(designData))
          => /\ result.files.cad.isAssembly
             /\ ManifestNames(result.files.cad.files) = DeclaredNames(designData)
    /\ DeclaresAssembly(designData)
          => (ValidatorSeesAssembly(designData) <=> IsAssemblyDesign(designData))

\* the minimum wall thickness of a unit system, as autoCorrectDesign looks it up
MinWallOf(units) == MANUFACTURING_CONSTRAINTS(OrStr(units, "mm")).min_wall_thickness

\* the document carries a wall thickness below the minimum of its unit system
ThinWall(d) == d.wall_thickness # Absent /\ d.wall_thickness < MinWallOf(d.units)

\* the entries of a feedback list that would record a wall-thickness correction
WallCorrectionNotes ==
    {"Auto-corrected wall thickness to 2.5mm", "Auto-corrected wall thickness to 0.1inches",
     "Auto-added wall thickness: 2.5mm", "Auto-added wall thickness: 0.1inches"}

\* the jobs submitted to a geometry worker so far, in order
GeometryJobs ==
    LET IsGeometry(sp) == sp.kind \in GeometryKinds IN SelectSeq(spawned, IsGeometry)

\* C12: a design whose wall thickness is below the minimum of its unit system
\* is not rejected by validation: the wall thickness is raised to the
\* recommended value, a single-part build runs exactly one geometry job, and
\* the returned Build Result's feedback carries a note recording the correction.
C12_ThinWallCorrectedWithNote ==
    (ThinWall(parsedDesign) /\ pc # "plan")
    => /\ designData.wall_thickness
            = MANUFACTURING_CONSTRAINTS(designData.units).recommended_wall_thickness
       /\ ~(pc = "failed" /\ error.field = "wall_thickness")
       /\ (pc = "done" /\ ~IsAssemblyDesign(designData))
             => /\ Len(GeometryJobs) = 1
                /\ RangeOf(result.engineFeedback) \cap WallCorrectionNotes # {}

\* C13: applying autoCorrectDesign to an already-corrected document changes no
\* field and adds no feedback entry, and validation of the corrected document
\* does not reject its wall thickness, in both unit systems.
C13_CorrectionIsIdempotent ==
    [][/\ pc = "recorrect" => (designData' = designData /\ allFeedback' = allFeedback)
       /\ (pc = "validate" /\ pc' = "failed") => error'.field # "wall_thickness"]_vars

\* an undersized wall given in inches was raised to the recommended value and
\* the corrected document went through the correction a second time
C13_Witness ==
    /\ pc = "validate"
    /\ parsedDesign.units = "inches"
    /\ ThinWall(parsedDesign)
    /\ parsedDesign.wall_thickness # 0
    /\ designData.wall_thickness = 10

\* the component-model worker invocation failed: it did not start, exited
\* non-zero, or exited 0 without a successful document
ComponentFailed ==
    /\ proc.kind = "component"
    /\ \/ proc.state = "failed_to_start"
       \/ proc.state = "closed" /\ (proc.code # 0 \/ ~WellFormedFor("component", proc.stdout))

\* the entries of a feedback list that would report the failed stage
ComponentFailureNotes ==
    {"Component 3D model generation failed",
     "Build will continue without component 3D models"}

\* C14: a failure of the component-model stage never fails the build: a Build
\* Result is returned with an empty component-model list and a feedback note
\* about the failure, and the geometry and layout manifests are unchanged.
C14_ComponentFailureIsNonFatalWithNote ==
    (ComponentFailed /\ pc # "await_component")
    => /\ pc = "done"
       /\ result.component_models = Some(<<>>)
       /\ result.files.cad = [isAssembly |-> FALSE, files |-> cadResult.files]
             \/ result.files.cad = cadResult
       /\ result.files.pcb = Some(pcbResult.files)
       /\ (RangeOf(result.engineFeedback) \cup RangeOf(result.compatibilityChecks))
             \cap ComponentFailureNotes # {}

\* the stage in which a failed build failed
FailedStage ==
    IF designData = EmptyDoc THEN "planning"
    ELSE IF spawned = <<>> THEN "validation"
    ELSE IF proc.kind \in GeometryKinds THEN "geometry"
    ELSE "layout"

\* the stage an error names: the label buildProduct's catch block puts in front
\* of the message, else the class of a validation error, else the stage the
\* message's own first words name
StageTag(err) ==
    LET head == IF err.message = <<>> THEN "" ELSE err.message[1].text IN
    CASE head = "CAD Generation Error: " -> "geometry"
      [] head = "AI Planning Error: " -> "planning"
      [] head = "Design Validation Error: " -> "validation"
      [] head \in {"AI planning failed: ", "Failed to parse AI response as JSON: "} -> "planning"
      [] head \in {"CAD generator failed with code ", "Failed to parse CAD generator output: ",
                   "Failed to start CAD generator: ", "Geometry Interpreter failed: ",
                   "Geometry Interpreter output parsing failed: "} -> "geometry"
      [] head \in {"PCB generator failed with code ", "Failed to parse PCB generator output: ",
                   "Failed to start PCB generator: "} -> "layout"
      [] OTHER -> IF err.name = "ValidationError" THEN "validation" ELSE "none"

\* C15: the error of a failed build is tagged with the stage that failed: a
\* planner failure as planning, a validator failure as validation, a geometry
\* worker failure as geometry, and never with another stage.
C15_ErrorTaggedWithFailedStage ==
    pc = "failed"
    => /\ FailedStage \in {"planning", "validation", "geometry"}
             => StageTag(error) = FailedStage
       /\ StageTag(error) \in {"none", FailedStage}

\* the advisory strings checkEngineCompatibility can return
Advisories ==
    {"FreeCAD not found - using fallback Python (may have limited CAD features)",
     "KiCad not found - PCB generation will be skipped",
     "PCB required but no components specified - will generate basic board layout",
     "High cutout count - CAD generation may be slow",
     "Large dimensions - may exceed standard 3D printer build volume",
     "Very small dimensions - may be difficult to manufacture"}

\* C16: for a document that passed validation the compatibility check returns
\* a list of advisory strings, and whatever it returns the build moves on to
\* the GEOMETRY stage and is not failed.
C16_CompatibilityNeverBlocks ==
    [][pc = "preflight"
          => /\ pc' = "geometry"
             /\ error' = error
             /\ RangeOf(compatibilityIssues') \subseteq Advisories]_vars

\* the build reached the GEOMETRY stage with several compatibility warnings
C16_Witness ==
    /\ pc = "geometry"
    /\ Len(compatibilityIssues) >= 3
    /\ "Large dimensions - may exceed standard 3D printer build volume"
          \in RangeOf(compatibilityIssues)

\* a part of an assembly lacks a name or a shape category
PartIncomplete(part) == FalsyStr(part.name) \/ FalsyStr(part.shape_type)

\* a part of an assembly carries a dimension or a wall thickness outside the
\* range of the document's unit system
PartOutOfRange(d, part) ==
    \/ \E k \in 1..Len(dims) :
          part[dims[k]] # Absent /\ (part[dims[k]] < DimMin(d) \/ part[dims[k]] > DimMax(d))
    \/ part.wall_thickness # Absent /\ part.wall_thickness < WallMin(d)

\* C17: for an assembly document the validator applies the required-field
\* rules and the range checks to every part: a part without a name or shape
\* category, or with a dimension or wall thickness out of range, makes
\* validation fail.
C17_PartsAreRangeChecked ==
    (/\ pc # "validate"
     /\ ValidatorSeesAssembly(designData)
     /\ designData.units \in UnitsAllowed
     /\ \E k \in 1..Len(designData.parts) :
           PartIncomplete(designData.parts[k]) \/ PartOutOfRange(designData, designData.parts[k]))
    => pc = "failed"

\* a part of the assembly block carries at least one dimensional field
HasDimension(part) ==
    ~(FalsyNum(part.dimensions.length) /\ FalsyNum(part.dimensions.width)
      /\ FalsyNum(part.dimensions.height))

\* the document carries the complete dimensions of its shape category
CompleteDimensions(d) ==
    IF OrStr(d.shape_type, "box") = "box"
    THEN d.length # Absent /\ d.width # Absent /\ d.height # Absent
    ELSE SinglePartErrors(d) = <<>>

\* C18: a document that passed validation and reached the GEOMETRY stage
\* satisfies the Design Document invariant: an assembly has a non-empty parts
\* list whose parts each carry a shape category and a dimensional field; any
\* other document carries the complete dimensions of its shape category.
C18_GeometryInputIsWellFormed ==
    pc = "geometry"
    => IF IsAssemblyDesign(designData)
       THEN /\ Len(designData.assembly.parts) >= 1
            /\ \A k \in 1..Len(designData.assembly.parts) :
                  /\ ~FalsyStr(designData.assembly.parts[k].shape_type)
                  /\ HasDimension(designData.assembly.parts[k])
       ELSE CompleteDimensions(designData)

\* C19: no geometry job is submitted with a wall thickness below the minimum
\* of its unit system, for a single-part design and for every part of an
\* assembly.
C19_NoUndersizedWallReachesWorker ==
    \A k \in 1..Len(GeometryJobs) :
       GeometryJobs[k].job.wall_thickness >= MinWallOf(GeometryJobs[k].job.units)

\* C20: any two geometry jobs are given different output identifiers.
C20_JobIdentifiersAreDistinct ==
    \A j, k \in 1..Len(GeometryJobs) :
       j # k => GeometryJobs[j].jobId # GeometryJobs[k].jobId

\* the position of a control point of buildProduct in the order of the stages
StageRank(p) ==
    CASE p = "plan" -> 1
      [] p = "validate" -> 2
      [] p = "preflight" -> 3
      [] p \in {"geometry", "asm_loop", "await_part", "await_cad"} -> 4
      [] p = "await_pcb" -> 5
      [] p = "await_component" -> 6
      [] p = "done" -> 7
      [] OTHER -> 8

\* the stage a worker kind belongs to
KindRank(kind) ==
    CASE kind \in {"cad", "interpreter"} -> 4
      [] kind = "pcb" -> 5
      [] kind = "component" -> 6

\* C21: the stages of a build run one after the other in the order PLAN,
\* VALIDATE, PREFLIGHT, GEOMETRY, LAYOUT, COMPONENT_MODELS, DONE: the build
\* never moves back, the first four stages are entered one by one, a worker
\* is spawned only after validation and the compatibility check, only in the
\* stage it belongs to and only when every earlier worker has ended, and
\* after a fatal failure nothing is spawned and the build stays failed.
C21_StagesRunSequentially ==
    [][/\ StageRank(pc') >= StageRank(pc)
       /\ StageRank(pc') <= 4 => StageRank(pc') <= StageRank(pc) + 1
       /\ StageRank(pc) = 8 => pc' = pc /\ spawned' = spawned
       /\ spawned' # spawned
             => /\ Len(spawned') = Len(spawned) + 1
                /\ SubSeq(spawned', 1, Len(spawned)) = spawned
                /\ StageRank(pc) >= 4
                /\ validateDesignData(designData).ok
                /\ proc.state \in {"none", "closed", "failed_to_start"}
                /\ Len(exits) = Len(spawned)
                /\ KindRank(spawned'[Len(spawned')].kind) = StageRank(pc')
                /\ proc'.state = "running"
                /\ proc'.inv = Len(spawned')]_vars

\* a build of an assembly ran every stage: one geometry worker per part, the
\* layout worker and the component-model worker, and is DONE
C21_Witness ==
    /\ pc = "done"
    /\ Len(spawned) = MaxParts + 2
    /\ spawned[Len(spawned)].kind = "component"

LayoutRan == \E k \in 1..Len(spawned) : spawned[k].kind = "pcb"
ComponentModelsRan == \E k \in 1..Len(spawned) : spawned[k].kind = "component"

\* the layout stage resolved with a component list
LayoutGaveComponents ==
    pcbResult # NoValue /\ ~FalsyStr(pcbResult.component_file)

\* C22: the layout worker is spawned only for a design whose pcb_required
\* flag is set, and for every such design whose geometry stage completed;
\* the component-model worker is spawned exactly when the layout worker
\* resolved with a component list, so never when the layout stage was
\* skipped or degraded.
C22_OptionalStagesAreGated ==
    /\ LayoutRan => designData.pcb_required
    /\ cadResult # NoValue => (LayoutRan <=> designData.pcb_required)
    /\ ComponentModelsRan <=> LayoutGaveComponents
    /\ LayoutGaveComponents => LayoutRan

\* a build is DONE whose layout worker resolved with a component list and
\* was followed by the component-model worker
C22_Witness ==
    /\ pc = "done"
    /\ LayoutRan
    /\ ComponentModelsRan
    /\ result.files.pcb # Null

\* the feedback the k-th invocation of the build contributes: the entries its
\* runner extracted, or for a part of an assembly whose runner rejected the
\* warning runAssemblyCADGenerator pushes in its place
Contributed(k) ==
    IF exits[k].resolved THEN exits[k].feedback
    ELSE IF spawned[exits[k].inv].kind = "cad" /\ cadResult # NoValue /\ cadResult.isAssembly
    THEN <<PartFailedWarning([part_name |-> spawned[exits[k].inv].job.product_type])>>
    ELSE <<>>

RECURSIVE ContributedUpTo(_)
\* the contributions of the first n invocations, in the order they ran
ContributedUpTo(n) ==
    IF n = 0 THEN <<>> ELSE ContributedUpTo(n - 1) \o Contributed(n)

FellBackToSystemCommand(e) == getFreeCADPython(e) \in {"python", "python3"}

GeometryToolWarning ==
    "FreeCAD not found - using fallback Python (may have limited CAD features)"

\* C26: the compatibility check carries the geometry-tool warning exactly
\* when worker discovery fell back to the generic system command, on every
\* platform.
C26_FallbackIsWarnedOnEveryPlatform ==
    pc = "geometry"
    => (GeometryToolWarning \in RangeOf(compatibilityIssues)
           <=> FellBackToSystemCommand(env))

\* the error of a runner's 'error' listener
IsStartError(err) ==
    /\ err.message # <<>>
    /\ err.message[1].text \in {"Failed to start CAD generator: ",
                                "Failed to start PCB generator: ",
                                "Failed to start component model generator: "}

\* C30: the promise of every invocation whose child has ended is settled,
\* resolved or rejected; an invocation whose child could not be started is
\* rejected with a start error, and the build goes on from that rejection.
C30_InvocationSettlesOnStartFailure ==
    /\ proc.state \in {"closed", "failed_to_start"}
          => proc.promise.status \in {"resolved", "rejected"}
    /\ proc.state = "failed_to_start"
          => /\ proc.promise.status = "rejected"
             /\ IsStartError(proc.promise.error)
             /\ pc # "crashed"

\* the value a job inherits: the part's when the part has one, else the
\* document's when the document has one, else the built-in default; absent
\* is what JavaScript reads from a property that is not there
InheritNum(partValue, docValue, builtIn) ==
    IF partValue # Absent THEN partValue
    ELSE IF docValue # Absent THEN docValue
    ELSE builtIn

InheritStr(partValue, docValue, builtIn) ==
    IF partValue # "" THEN partValue
    ELSE IF docValue # "" THEN docValue
    ELSE builtIn

KeptNum(v) == IF v = 0 THEN Absent ELSE v

CarriesMarker(kind, line) ==
    \/ Includes(line, "Warning:")
    \/ Includes(line, "Note:")
    \/ kind = "cad" /\ Includes(line, WarningSign)

\* the lines of a text that carry a marker, in the order of the text
MarkedLines(kind, lines) ==
    SelectSeq(lines, LAMBDA line : CarriesMarker(kind, line))

\* a geometry or layout runner resolved
ExtractionRan ==
    proc.kind \in {"cad", "pcb"} /\ proc.promise.status = "resolved"

AfterFirstColon(line) ==
    CASE line = LayerHeightLine -> "0.2mm"
      [] line = PrintTimeLine -> "1:30"
      [] line = WarningLine -> "wall thinner than recommended"
      [] line = IndentedNoteLine -> "supports advised"
      [] OTHER -> ""

\* the key/value entries of a settings map: all but the two flags
KeyValueEntries(settings) ==
    [k \in DOMAIN settings \ {"isManifold", "needsSupports"} |-> settings[k]]

RECURSIVE BlockEntries(_, _, _)
\* the key/value entries the lines of a text give: each colon-separated line
\* after a begin marker and before the next end marker gives its key with
\* the whole text after its first colon
BlockEntries(entries, inside, lines) ==
    IF lines = <<>> THEN entries
    ELSE LET line == Head(lines) IN
         IF line = BeginMarkerLine THEN BlockEntries(entries, TRUE, Tail(lines))
         ELSE IF line = EndMarkerLine THEN BlockEntries(entries, FALSE, Tail(lines))
         ELSE IF inside /\ HasColon(line)
         THEN BlockEntries([k \in DOMAIN entries \cup {SplitColon(line)[1]} |->
                               IF k = SplitColon(line)[1] THEN AfterFirstColon(line)
                               ELSE entries[k]],
                           inside, Tail(lines))
         ELSE BlockEntries(entries, inside, Tail(lines))

\* C28: the key/value entries of the settings map of a resolved geometry
\* runner are those of the colon-separated lines inside a begin/end block of
\* the diagnostic text, each key with the complete text after the line's
\* first colon, and no others.
C28_SettingsAreTheBlockEntries ==
    (proc.kind = "cad" /\ proc.promise.status = "resolved")
    => KeyValueEntries(proc.promise.value.printSettings)
          = BlockEntries(EmptySettings, FALSE, proc.written)

\* C29: when the design passes validation and the geometry runner resolves,
\* buildProductFromDesign returns a result with the build identifier, the
\* design and the files, so the chat route answers with it and not with an
\* error.
C29_FromDesignReturnsResult ==
    (/\ pc # "fd_await_cad"
     /\ exits # <<>>
     /\ exits[1].resolved)
    => /\ pc = "done"
       /\ error = NoError
       /\ result # NoResult

\* C24: whatever the order of the worker's writes to its two streams and
\* however small the pipes, the invocation settles, with the job written to
\* the worker's input exactly once and the input closed.
C24_InvocationCompletes ==
    <>(/\ proc.promise.status # "pending"
       /\ proc.io.consumed = JobChunks
       /\ proc.io.stdinClosed
       /\ proc.io.outReceived = proc.io.outTotal)

\* the runner resolved for a worker that wrote more to each of its streams
\* than a pipe holds
C24_Witness ==
    /\ proc.promise.status = "resolved"
    /\ proc.io.outTotal > PipeCap
    /\ Len(proc.written) > PipeCap

(***************************************************************************)
(* The pipeline under fair scheduling: every enabled step of the           *)
(* orchestrator and every event of a worker that has not hung is           *)
(* eventually taken.                                                       *)
(***************************************************************************)
FairSpec == Spec /\ WF_vars(Next)

====
